---- MODULE Spec2Model ----
(***************************************************************************)
(* Axon: the workspace (thought chunks, resonance, decay, clustering) and  *)
(* the orchestrator's cognitive-cycle state machine.                       *)
(*                                                                         *)
(* Numbers.  Activation energies and configuration values are JavaScript   *)
(* numbers; they are modelled as exact rationals <<n, d>> with d > 0 in    *)
(* lowest terms (rounding of floating point is not modelled).  Embedding   *)
(* vectors are sequences of integers whose squared norm is a perfect       *)
(* square, so that Math.sqrt is exact on them.                             *)
(*                                                                         *)
(* Text.  Strings returned by the generation capability are modelled by a  *)
(* few representative strings; the literal strings of the source are kept. *)
(* An absent contentVector (undefined) is modelled by the empty sequence;  *)
(* the embedding capability never returns an empty vector.                 *)
(***************************************************************************)
EXTENDS Integers, Sequences, FiniteSets, TLC

VARIABLES
    pc,             \* position of Orchestrator.start's control flow
    config,         \* workspace + orchestrator configuration of the instance
    chunks,         \* Workspace.chunks: sequence of ThoughtChunk records in Map insertion order
    nextId,         \* source of fresh chunk ids (nanoid)
    specialists,    \* Orchestrator.specialists: sequence of agent ids in Map insertion order
    cycleCount,     \* start: let cycleCount
    broadcasts,     \* start: const broadcasts
    finalBroadcast, \* start: let finalBroadcast
    activeChunks,   \* runCognitiveCycle: const activeChunks (ids of the snapshot)
    task,           \* runCognitiveCycle: the processing promise of each specialist
    cluster,        \* the list findHighEnergyCluster returned last (ids)
    synthesis,      \* processBroadcast: const synthesis
    result,         \* what start returned (NoResult until it returns)
    decayCalls,     \* number of decayActivations calls made so far
    faults,         \* number of external calls that did not answer normally so far
    emitted,        \* the events the Axon has emitted to its listeners, in order
    methods,        \* orchestrator["runCognitiveCycle"], orchestrator["processBroadcast"]
    streams,        \* processWithStreaming calls: their state and captured originals
    axonConfig,     \* Axon.config
    cache,          \* EmbeddingService.cache
    args,           \* the arguments of the last call of a service operation
    answer          \* what that call answered

vars == <<pc, config, chunks, nextId, specialists, cycleCount, broadcasts,
          finalBroadcast, activeChunks, task, cluster, synthesis, result,
          decayCalls, faults, emitted, methods, streams, axonConfig, cache, args,
          answer>>

\* the fields of the Axon instance and of its services that a run of the
\* orchestrator and the operations of a workspace do not write
serviceVars == <<methods, streams, axonConfig, cache, args, answer>>
axonVars == <<emitted, serviceVars>>

\* the variables of the run: all but the events and the services
runVars ==
    <<pc, config, chunks, nextId, specialists, cycleCount, broadcasts, finalBroadcast,
      activeChunks, task, cluster, synthesis, result, decayCalls, faults>>

-----------------------------------------------------------------------------
(* Bounds of the model *)

\* most cycles a run is configured with
MaxCycles == 2
\* most processWithStreaming calls made on one instance
MaxCalls == 2
\* largest absolute value of a component of the vectors compared on their own
MaxComponent == 4
\* most external calls of a run that fail or answer abnormally
MaxFaults == 1
\* chunks a caller's workspace holds before it is worked on
MaxFillers == 28
\* most chunks added to a caller's workspace
MaxAdded == 3
\* most decayActivations calls on a caller's workspace
MaxDecays == 1
\* most chunks of a caller's small workspace
MaxChunks == 3
\* most runs started on one instance
MaxRuns == 2
\* chunks a caller has put in the workspace of an instance before a run
MaxSeeds == 9

-----------------------------------------------------------------------------
(* Exact rational arithmetic.  The operations are functions: like a         *)
(* JavaScript call, a function application works on the values of its      *)
(* arguments.                                                              *)

\* JavaScript evaluates an argument once, before the call: F applied to the
\* value of arg
Call(F(_), arg) == CHOOSE r \in {F(v) : v \in {arg}} : TRUE

Abs(x) == IF x < 0 THEN -x ELSE x

GCD[a \in Nat, b \in Nat] == IF b = 0 THEN a ELSE GCD[b, a % b]

Norm[n \in Int, d \in Int] ==
    LET g == GCD[Abs(n), Abs(d)]
        s == IF d < 0 THEN -1 ELSE 1
    IN  IF n = 0 THEN <<0, 1>> ELSE <<s * (n \div g), s * (d \div g)>>

Rat == Int \X Int
R(k) == <<k, 1>>
Frac(n, d) == Norm[n, d]
\* sums and comparisons go through the common denominator, products cancel
\* across first, so that the intermediate integers stay small
RAdd[a \in Rat, b \in Rat] ==
    LET g == GCD[a[2], b[2]]
    IN  Norm[a[1] * (b[2] \div g) + b[1] * (a[2] \div g), (a[2] \div g) * b[2]]
RMul[a \in Rat, b \in Rat] ==
    LET x == Norm[a[1], b[2]]
        y == Norm[b[1], a[2]]
    IN  Norm[x[1] * y[1], x[2] * y[2]]
RDivInt[a \in Rat, k \in Int] == RMul[a, Norm[1, k]]
RLeq[a \in Rat, b \in Rat] ==
    LET g == GCD[a[2], b[2]]
    IN  a[1] * (b[2] \div g) <= b[1] * (a[2] \div g)
RLess[a \in Rat, b \in Rat] ==
    LET g == GCD[a[2], b[2]]
    IN  a[1] * (b[2] \div g) < b[1] * (a[2] \div g)

\* Math.sqrt on perfect squares
Sqrt(n) == CHOOSE r \in 0..n : r * r = n

-----------------------------------------------------------------------------
(* ThoughtChunk *)

NoVector == <<>>

\* a chunk that names itself among its parents
ThoughtChunk_OwnParent(id, content, contentVector, activationEnergy, sourceAgentId, parentIds, now) ==
    [id |-> id, content |-> content, contentVector |-> contentVector,
     activationEnergy |-> activationEnergy, sourceAgentId |-> sourceAgentId,
     parentIds |-> Append(parentIds, id), createdAt |-> now]

\* new ThoughtChunk(props); id is props.id || nanoid(), now is new Date()
ThoughtChunk(id, content, contentVector, activationEnergy, sourceAgentId, parentIds, now) ==
    [id |-> id, content |-> content, contentVector |-> contentVector,
     activationEnergy |-> activationEnergy, sourceAgentId |-> sourceAgentId,
     parentIds |-> parentIds, createdAt |-> now]

\* chunk.decay(decayRate)
decay(chunk, decayRate) ==
    [chunk EXCEPT !.activationEnergy = RMul[chunk.activationEnergy, decayRate]]

\* a boost that sets the energy to the amount
boost_Replaces(chunk, amount) == [chunk EXCEPT !.activationEnergy = amount]

\* chunk.boost(amount)
boost(chunk, amount) ==
    [chunk EXCEPT !.activationEnergy = RAdd[chunk.activationEnergy, amount]]

-----------------------------------------------------------------------------
(* Workspace: every operation takes the chunk map ws (a sequence in Map    *)
(* insertion order) and the configuration cfg it reads.                    *)

Thrown == [ok |-> FALSE]
Returned(v) == [ok |-> TRUE, val |-> v]

IndexOfId(ws, id) ==
    LET Find(key) ==
            IF \E i \in 1..Len(ws) : ws[i].id = key
            THEN CHOOSE i \in 1..Len(ws) : ws[i].id = key
            ELSE 0
    IN  Call(Find, id)

HasChunk(ws, id) == IndexOfId(ws, id) # 0

\* this.chunks.get(id); only used where HasChunk holds
getChunk(ws, id) == ws[IndexOfId(ws, id)]

\* an addChunk that halves the energy of the chunks already there
addChunk_DrainsOthers(ws, chunk) ==
    Append([i \in 1..Len(ws) |-> decay(ws[i], Frac(1, 2))], chunk)

\* this.chunks.set(chunk.id, chunk): a new key is appended, an existing key
\* keeps its position and gets the new value
addChunk(ws, chunk) ==
    IF HasChunk(ws, chunk.id)
    THEN [ws EXCEPT ![IndexOfId(ws, chunk.id)] = chunk]
    ELSE Append(ws, chunk)

RECURSIVE SumProducts(_, _, _)
SumProducts(a, b, i) ==
    IF i > Len(a) THEN 0 ELSE a[i] * b[i] + SumProducts(a, b, i + 1)

\* a similarity that answers 0 for vectors of different lengths
cosineSimilarity_ZeroOnMismatch(vecA, vecB) ==
    IF Len(vecA) # Len(vecB) THEN Returned(R(0))
    ELSE LET dotProduct == SumProducts(vecA, vecB, 1)
             normA == SumProducts(vecA, vecA, 1)
             normB == SumProducts(vecB, vecB, 1)
         IN  IF normA = 0 \/ normB = 0 THEN Returned(R(0))
             ELSE Returned(Frac(dotProduct, Sqrt(normA) * Sqrt(normB)))

\* a similarity that divides by the squared norm of vecA alone
cosineSimilarity_OverNormA(vecA, vecB) ==
    IF Len(vecA) # Len(vecB) THEN Thrown
    ELSE LET dotProduct == SumProducts(vecA, vecB, 1)
             normA == SumProducts(vecA, vecA, 1)
             normB == SumProducts(vecB, vecB, 1)
         IN  IF normA = 0 \/ normB = 0 THEN Returned(R(0))
             ELSE Returned(Frac(dotProduct, Sqrt(normA) * Sqrt(normA)))

cosineSimilarity(vecA, vecB) ==
    IF Len(vecA) # Len(vecB) THEN Thrown
    ELSE LET dotProduct == SumProducts(vecA, vecB, 1)
             normA == SumProducts(vecA, vecA, 1)
             normB == SumProducts(vecB, vecB, 1)
         IN  IF normA = 0 \/ normB = 0 THEN Returned(R(0))
             ELSE Returned(Frac(dotProduct, Sqrt(normA) * Sqrt(normB)))

\* the loop adding the similarity without the parent's activation energy
RECURSIVE ResonanceLoop_Unweighted(_, _, _, _, _, _)
ResonanceLoop_Unweighted(ws, contentVector, parentIds, i, totalResonance, validParentCount) ==
    IF i > Len(parentIds)
    THEN Returned([totalResonance |-> totalResonance, validParentCount |-> validParentCount])
    ELSE IF ~HasChunk(ws, parentIds[i]) \/ getChunk(ws, parentIds[i]).contentVector = NoVector
    THEN ResonanceLoop_Unweighted(ws, contentVector, parentIds, i + 1, totalResonance,
                                  validParentCount)
    ELSE LET parentChunk == getChunk(ws, parentIds[i])
             similarity == cosineSimilarity(contentVector, parentChunk.contentVector)
         IN  IF ~similarity.ok THEN Thrown
             ELSE ResonanceLoop_Unweighted(ws, contentVector, parentIds, i + 1,
                      RAdd[totalResonance, similarity.val], validParentCount + 1)

\* the for loop of calculateResonance from parentIds[i] on
RECURSIVE ResonanceLoop(_, _, _, _, _, _)
ResonanceLoop(ws, contentVector, parentIds, i, totalResonance, validParentCount) ==
    IF i > Len(parentIds)
    THEN Returned([totalResonance |-> totalResonance, validParentCount |-> validParentCount])
    ELSE IF ~HasChunk(ws, parentIds[i]) \/ getChunk(ws, parentIds[i]).contentVector = NoVector
    THEN ResonanceLoop(ws, contentVector, parentIds, i + 1, totalResonance, validParentCount)
    ELSE LET parentChunk == getChunk(ws, parentIds[i])
             similarity == cosineSimilarity(contentVector, parentChunk.contentVector)
         IN  IF ~similarity.ok THEN Thrown
             ELSE ResonanceLoop(ws, contentVector, parentIds, i + 1,
                      RAdd[totalResonance, RMul[similarity.val, parentChunk.activationEnergy]],
                      validParentCount + 1)

\* calculateResonance answering the full factor when no parent is valid
calculateResonance_FullWithoutParents(ws, cfg, contentVector, parentIds) ==
    LET Average(loop) ==
            IF ~loop.ok THEN Thrown
            ELSE IF loop.val.validParentCount = 0 THEN Returned(cfg.maxResonanceFactor)
            ELSE Returned(RMul[RDivInt[loop.val.totalResonance, loop.val.validParentCount],
                               cfg.maxResonanceFactor])
    IN  Call(Average, ResonanceLoop(ws, contentVector, parentIds, 1, R(0), 0))

\* calculateResonance averaging over all the parentIds, not the valid parents
calculateResonance_OverAllParents(ws, cfg, contentVector, parentIds) ==
    LET Average(loop) ==
            IF ~loop.ok THEN Thrown
            ELSE IF loop.val.validParentCount = 0 THEN Returned(R(0))
            ELSE Returned(RMul[RDivInt[loop.val.totalResonance, Len(parentIds)],
                               cfg.maxResonanceFactor])
    IN  Call(Average, ResonanceLoop(ws, contentVector, parentIds, 1, R(0), 0))

calculateResonance(ws, cfg, contentVector, parentIds) ==
    LET Average(loop) ==
            IF ~loop.ok THEN Thrown
            ELSE IF loop.val.validParentCount = 0 THEN Returned(R(0))
            ELSE Returned(RMul[RDivInt[loop.val.totalResonance, loop.val.validParentCount],
                               cfg.maxResonanceFactor])
    IN  Call(Average, ResonanceLoop(ws, contentVector, parentIds, 1, R(0), 0))

\* createChunk: Thrown, or Returned([chunk, ws]) with the chunk inserted
createChunk(ws, cfg, content, contentVector, sourceAgentId, parentIds, id, now) ==
    LET Insert(chunk) == Returned([chunk |-> chunk, ws |-> addChunk(ws, chunk)])
        Create(resonanceFactor) ==
            IF ~resonanceFactor.ok THEN Thrown
            ELSE Call(Insert,
                      ThoughtChunk(id, content, contentVector,
                                   RAdd[cfg.baseActivationEnergy, resonanceFactor.val],
                                   sourceAgentId, parentIds, now))
    IN  Call(Create,
             IF contentVector # NoVector /\ Len(parentIds) > 0
             THEN calculateResonance(ws, cfg, contentVector, parentIds)
             ELSE Returned(R(0)))

\* a decay that drops the chunks whose energy has fallen under the base
decayActivations_DropsFaded(ws, cfg) ==
    SelectSeq([i \in 1..Len(ws) |-> decay(ws[i], cfg.decayRate)],
              LAMBDA chunk : RLeq[cfg.baseActivationEnergy, chunk.activationEnergy])

\* a decay that passes over the chunk inserted last
decayActivations_SparesNewest(ws, cfg) ==
    [i \in 1..Len(ws) |-> IF i = Len(ws) THEN ws[i] ELSE decay(ws[i], cfg.decayRate)]

decayActivations(ws, cfg) == [i \in 1..Len(ws) |-> decay(ws[i], cfg.decayRate)]

getAllChunks(ws) == ws

\* Array.prototype.sort with the comparator (a, b) => Key(b) - Key(a); the
\* sort is stable: an element comes after the elements with a greater key and
\* after the elements with an equal key that were before it
SortDesc(Key(_), list) ==
    LET Sorted(s) ==
            LET Place(rank) ==
                    [p \in 1..Len(s) |-> s[CHOOSE j \in 1..Len(s) : rank[j] = p]]
            IN  Call(Place,
                     [j \in 1..Len(s) |->
                         1 + Cardinality({i \in 1..Len(s) :
                                 \/ RLess[Key(s[j]), Key(s[i])]
                                 \/ Key(s[i]) = Key(s[j]) /\ i < j})])
    IN  Call(Sorted, list)

Min(a, b) == IF a < b THEN a ELSE b

\* the comparator's key with the sign turned: the sort ascends
ActivationEnergyOf_Negated(chunk) == RMul[R(-1), chunk.activationEnergy]

ActivationEnergyOf(chunk) == chunk.activationEnergy

\* slice(limit) in place of slice(0, limit): what comes after the first limit
getMostActiveChunks_AfterLimit(ws, limit) ==
    Call(LAMBDA sorted : SubSeq(sorted, limit + 1, Len(sorted)),
         SortDesc(ActivationEnergyOf, ws))

\* sort by descending activationEnergy, slice(0, limit)
getMostActiveChunks(ws, limit) ==
    Call(LAMBDA sorted : SubSeq(sorted, 1, Min(limit, Len(sorted))),
         SortDesc(ActivationEnergyOf, ws))

\* parentIds.includes(id)
Includes(ids, id) == \E i \in 1..Len(ids) : ids[i] = id

\* the parents of current that are pushed on the queue, in parentIds order
ActiveParents(parentIds, visited, active) ==
    LET Pushed(parentId) == HasChunk(active, parentId) /\ parentId \notin visited
        Chunks(ids) == [k \in 1..Len(ids) |-> getChunk(active, ids[k])]
    IN  Call(Chunks, SelectSeq(parentIds, Pushed))

\* a turn of exploreCluster that follows a chunk's parents and not its children
ExploreTurn_ParentsOnly(st, active) ==
    LET current == Head(st.queue)
    IN  IF current.id \in st.visited
        THEN [st EXCEPT !.queue = Tail(st.queue)]
        ELSE LET visited2 == st.visited \cup {current.id}
             IN  [queue |-> Tail(st.queue)
                              \o ActiveParents(current.parentIds, visited2, active),
                  visited |-> visited2,
                  cluster |-> Append(st.cluster, current)]

\* one turn of the while loop of exploreCluster: queue.shift() and what is
\* done with the chunk taken
ExploreTurn(st, active) ==
    LET current == Head(st.queue)
    IN  IF current.id \in st.visited
        THEN [st EXCEPT !.queue = Tail(st.queue)]
        ELSE LET visited2 == st.visited \cup {current.id}
                 IsChild(c) == c.id \notin visited2 /\ Includes(c.parentIds, current.id)
             IN  [queue |-> Tail(st.queue)
                              \o ActiveParents(current.parentIds, visited2, active)
                              \o SelectSeq(active, IsChild),
                  visited |-> visited2,
                  cluster |-> Append(st.cluster, current)]

\* the turns of the while loop that take a visited chunk off the queue and
\* continue: the queue from its first chunk not yet visited on
SkipVisited(st) ==
    LET Fresh(queue) == {k \in 1..Len(queue) : queue[k].id \notin st.visited}
        From(fresh) ==
            IF fresh = {} THEN <<>>
            ELSE SubSeq(st.queue, CHOOSE k \in fresh : \A j \in fresh : k <= j,
                        Len(st.queue))
    IN  [st EXCEPT !.queue = From(Fresh(st.queue))]

\* the while loop of exploreCluster; visited is the Set shared with the caller
RECURSIVE ExploreLoop(_, _)
ExploreLoop(st, active) ==
    IF SkipVisited(st).queue = <<>> THEN [cluster |-> st.cluster, visited |-> st.visited]
    ELSE Call(LAMBDA next : ExploreLoop(next, active),
              ExploreTurn(SkipVisited(st), active))

exploreCluster(startChunk, visited, active) ==
    ExploreLoop([queue |-> <<startChunk>>, visited |-> visited, cluster |-> <<>>], active)

\* the for loop of findHighEnergyCluster from activeChunks[i] on
RECURSIVE ClustersLoop(_, _, _, _)
ClustersLoop(active, i, visited, clusters) ==
    IF i > Len(active) THEN clusters
    ELSE IF active[i].id \in visited THEN ClustersLoop(active, i + 1, visited, clusters)
    ELSE LET Collect(e) ==
                 ClustersLoop(active, i + 1, e.visited,
                              IF Len(e.cluster) > 0 THEN Append(clusters, e.cluster)
                              ELSE clusters)
         IN  Call(Collect, exploreCluster(active[i], visited, active))

\* cluster.reduce((sum, chunk) => sum + chunk.activationEnergy, 0)
RECURSIVE TotalActivation(_, _)
TotalActivation(list, i) ==
    IF i > Len(list) THEN R(0)
    ELSE RAdd[list[i].activationEnergy, TotalActivation(list, i + 1)]

\* findHighEnergyCluster looking at twice as many chunks
ClusterWindow_Doubled == 2 * 30

\* the literal 30 of findHighEnergyCluster
ClusterWindow == 30

\* clusters.map(cluster => ({cluster, totalActivation}))
ClusterActivations(clusters) ==
    [k \in 1..Len(clusters) |->
        [cluster |-> clusters[k], totalActivation |-> TotalActivation(clusters[k], 1)]]

TotalActivationOf(entry) == entry.totalActivation

findHighEnergyCluster(ws, cfg) ==
    LET Choose(clusterActivations) ==
            IF Len(clusterActivations) > 0
               /\ RLeq[cfg.activationThreshold, clusterActivations[1].totalActivation]
            THEN clusterActivations[1].cluster
            ELSE <<>>
        Rank(clusters) ==
            Call(Choose, SortDesc(TotalActivationOf, ClusterActivations(clusters)))
        Explore(active) == Call(Rank, ClustersLoop(active, 1, {}, <<>>))
    IN  Call(Explore, getMostActiveChunks(ws, ClusterWindow))

\* list.map((chunk) => chunk.id)
Ids(list) == Call(LAMBDA l : [i \in 1..Len(l) |-> l[i].id], list)

-----------------------------------------------------------------------------
(* Program constants *)

UserChunkEnergy == 5
MetaChunkEnergy == 3
BroadcastBoost == 5
ActiveLimit == 10

\* DEFAULT_CONFIG, with the settings a caller overrides in this model
DefaultConfig ==
    [decayRate |-> Frac(95, 100), activationThreshold |-> R(7),
     baseActivationEnergy |-> R(1), maxResonanceFactor |-> R(2),
     maxCycles |-> 10, broadcastThreshold |-> R(10)]

Thresholds == {R(7), R(9)}

Configs ==
    {[DefaultConfig EXCEPT !.maxCycles = m, !.activationThreshold = t] :
        m \in 0..MaxCycles, t \in Thresholds}

-----------------------------------------------------------------------------
(* Text, JSON and the analysis-output parser *)

MetaAgentId == "meta-agent"
AgentIds == <<"agent-1", "agent-2", "agent-3", "agent-4">>
\* an id generator that answers the same id again
uuidv4_Repeats(n) == AgentIds[1]

\* uuidv4() for the n-th specialist this orchestrator creates
uuidv4(n) == AgentIds[n]

MetaErrorText == "Error: Unable to generate agent definitions"
\* followed, in the source, by " for " and the specialist's role
SpecialistErrorText == "Error: Unable to generate specialist response"
BroadcastErrorText == "Error during broadcast synthesis"

Roles == <<"Analyst", "Critic", "Planner", "Ethicist">>
Definition(k) == [role |-> Roles[k], systemPrompt |-> "You are a specialist."]
ShortDefinition == [role |-> "Critic", systemPrompt |-> "Be brief"]

\* string length of the strings that occur in definitions
StrLen(str) ==
    CASE str = "" -> 0
      [] str = "Be brief" -> 8
      [] str = "You are a specialist." -> 21
      [] str = "Critic" -> 6
      [] str = "Analyst" -> 7
      [] str = "Planner" -> 7
      [] str = "Ethicist" -> 8

DefinitionsText == <<"[d1]", "[d1,d2]", "[d1,d2,d3]", "[d1,d2,d3,d4]">>
\* the rosters the analysis defines in this model: one or two specialists
RosterTexts == {DefinitionsText[1], DefinitionsText[2]}
\* the text [d1] inside a markdown json code fence
FencedText == "(json fence) [d1] (fence)"

\* texts the analysis generation may return
MetaTexts ==
    {"", "I think three experts are needed.", "{}", "[]", "[short]", FencedText}
        \cup RosterTexts

\* extractJsonFromLlmResponse: strips the code fences, then keeps the first
\* bracketed stretch if there is one
extractJsonFromLlmResponse(text) ==
    IF text = FencedText THEN "[d1]" ELSE text

JsonArray(items) == [type |-> "array", items |-> items]
JsonObject == [type |-> "object", items |-> <<>>]

\* JSON.parse
JsonParse(str) ==
    CASE str = "[]" -> Returned(JsonArray(<<>>))
      [] str = "{}" -> Returned(JsonObject)
      [] str = "[short]" -> Returned(JsonArray(<<ShortDefinition>>))
      [] \E n \in 1..Len(DefinitionsText) : str = DefinitionsText[n] ->
            LET n == CHOOSE n \in 1..Len(DefinitionsText) : str = DefinitionsText[n]
            IN  Returned(JsonArray([k \in 1..n |-> Definition(k)]))
      [] OTHER -> Thrown

\* AgentDefinitionSchema: role min(1), systemPrompt min(10)
AgentDefinitionSchema(def) == StrLen(def.role) >= 1 /\ StrLen(def.systemPrompt) >= 10

\* AgentDefinitionsArraySchema.safeParse(json).success
AgentDefinitionsArraySchema(json) ==
    /\ json.type = "array"
    /\ \A i \in 1..Len(json.items) : AgentDefinitionSchema(json.items[i])

Null == [null |-> TRUE, data |-> <<>>]
Data(d) == [null |-> FALSE, data |-> d]

\* safeParse answering an empty list where it should answer null
safeParse_EmptyForNull(text) ==
    LET json == JsonParse(extractJsonFromLlmResponse(text))
    IN  IF ~json.ok THEN Data(<<>>)
        ELSE IF AgentDefinitionsArraySchema(json.val) THEN Data(json.val.items)
        ELSE Data(<<>>)

\* safeParse(text, AgentDefinitionsArraySchema): the data, or null
safeParse(text) ==
    LET json == JsonParse(extractJsonFromLlmResponse(text))
    IN  IF ~json.ok THEN Null
        ELSE IF AgentDefinitionsArraySchema(json.val) THEN Data(json.val.items)
        ELSE Null

\* !specialistDefinitions: null is falsy, every array (the empty one too) is truthy
IsFalsy(parsed) == parsed.null

-----------------------------------------------------------------------------
(* The external generation capability: what a call may answer *)

UserPrompts == {"", "How do we design a bridge?"}
SpecialistText == "A thought."
SynthesisText == "A summary."

\* the vector the embedding model gives each text of the model
Embedding(text) ==
    CASE text = SpecialistText -> <<1, 0>>
      [] text = SpecialistErrorText -> <<-1, 0>>
      [] text = SynthesisText -> <<0, 1>>
      [] OTHER -> <<0, 0>>

\* a vector of another dimensionality than the model's
WrongDimensionVector == <<1>>

\* a call either rejects (Thrown) or resolves with a value.  Every call has
\* one normal answer; the other answers are faults
Outcomes(values) == {Thrown} \cup {Returned(v) : v \in values}
MetaOutcomes == Outcomes(MetaTexts)
SpecialistTextOutcomes == Outcomes({SpecialistText})
SynthesisTextOutcomes == Outcomes({SynthesisText, ""})
EmbeddingOutcomes(text) == Outcomes({Embedding(text), WrongDimensionVector})

\* the fault count after a call answered outcome where normal was expected
CountFault(outcome, normal) == IF outcome = Returned(normal) THEN faults ELSE faults + 1
WithinFaults(outcome, normal) == CountFault(outcome, normal) <= MaxFaults

-----------------------------------------------------------------------------
(* The Axon instance around the orchestrator *)

\* {...a, ...b} of two objects; {} is the empty function <<>>
Spread(a, b) ==
    [k \in DOMAIN a \cup DOMAIN b |-> IF k \in DOMAIN b THEN b[k] ELSE a[k]]

\* DEFAULT_CONFIG, its workspace and orchestrator sections
DEFAULT_CONFIG ==
    [workspace |-> [decayRate |-> DefaultConfig.decayRate,
                    activationThreshold |-> DefaultConfig.activationThreshold,
                    baseActivationEnergy |-> DefaultConfig.baseActivationEnergy,
                    maxResonanceFactor |-> DefaultConfig.maxResonanceFactor],
     orchestrator |-> [maxCycles |-> DefaultConfig.maxCycles,
                       broadcastThreshold |-> DefaultConfig.broadcastThreshold]]

\* createConfig: each section is the default section overlaid with the
\* user's section, if the user gave one
createConfig(userConfig) ==
    [section \in DOMAIN DEFAULT_CONFIG |->
        Spread(DEFAULT_CONFIG[section],
               IF section \in DOMAIN userConfig THEN userConfig[section] ELSE <<>>)]

\* this.config of the Axon whose constructor handed the values of cfg to
\* new Workspace and new Orchestrator
AxonConfigOf(cfg) ==
    [workspace |-> [decayRate |-> cfg.decayRate,
                    activationThreshold |-> cfg.activationThreshold,
                    baseActivationEnergy |-> cfg.baseActivationEnergy,
                    maxResonanceFactor |-> cfg.maxResonanceFactor],
     orchestrator |-> [maxCycles |-> cfg.maxCycles,
                       broadcastThreshold |-> cfg.broadcastThreshold]]

\* a method of the Orchestrator class: the wrapper of no call
OriginalMethod == [wrapper |-> 0]

\* the methods of the Orchestrator class
OriginalMethods == [runCognitiveCycle |-> OriginalMethod, processBroadcast |-> OriginalMethod]

\* the processWithStreaming calls a caller makes on one instance
Calls == 1..MaxCalls

\* a call not made yet
IdleCall ==
    [st |-> "idle", originalRunCognitiveCycle |-> OriginalMethod,
     originalProcessBroadcast |-> OriginalMethod, cycleCount |-> 0]

NoAnswer == [ok |-> FALSE, val |-> "none"]

\* a new Axon: its orchestrator has the methods of its class, no streaming
\* call is under way, the components hold the values of this.config, the
\* embedding cache is empty
ServicesInit ==
    /\ methods = OriginalMethods
    /\ streams = [c \in Calls |-> IdleCall]
    /\ axonConfig = AxonConfigOf(config)
    /\ cache = <<>>
    /\ args = <<>>
    /\ answer = NoAnswer

-----------------------------------------------------------------------------
(* Orchestrator *)

NoResult ==
    [returned |-> FALSE, finalBroadcast |-> "", broadcasts |-> <<>>,
     cyclesExecuted |-> 0, thoughts |-> <<>>, totalAgents |-> 0]

NoTask == [st |-> "none", thought |-> "", generationFailed |-> FALSE, createFailed |-> FALSE]

SpecialistIdSet == {specialists[i].id : i \in 1..Len(specialists)}

Init ==
    /\ pc = "constructed"
    /\ config \in Configs
    /\ chunks = <<>>
    /\ nextId = 1
    /\ specialists = <<>>
    /\ cycleCount = 0
    /\ broadcasts = <<>>
    /\ finalBroadcast = ""
    /\ activeChunks = <<>>
    /\ task = [s \in {} |-> NoTask]
    /\ cluster = <<>>
    /\ synthesis = ""
    /\ result = NoResult
    /\ decayCalls = 0
    /\ faults = 0
    /\ emitted = <<>>
    /\ ServicesInit

\* start, up to the first await: the user chunk is added and the analysis
\* generation is called; MetaAgent.process throws on an empty prompt, which
\* start turns into "Failed to define specialists"
Start(userPrompt) ==
    /\ pc = "constructed"
    /\ chunks' = addChunk(chunks,
                    ThoughtChunk(nextId, userPrompt, NoVector, R(UserChunkEnergy),
                                 "user", <<>>, 0))
    /\ nextId' = nextId + 1
    /\ broadcasts' = <<>>
    /\ pc' = IF userPrompt = "" THEN "rejected" ELSE "defining"
    /\ UNCHANGED <<config, specialists, cycleCount, finalBroadcast, activeChunks,
                   task, cluster, synthesis, result, decayCalls, faults>>

\* MetaAgent.process: a failed generation is answered by the error text
MetaAgentProcess(outcome) == IF outcome.ok THEN outcome.val ELSE MetaErrorText

\* the roster after the for loop of defineSpecialists over the definitions
RECURSIVE CreateSpecialists(_, _, _)
CreateSpecialists(roster, defs, i) ==
    IF i > Len(defs) THEN roster
    ELSE CreateSpecialists(
            Append(roster, [id |-> uuidv4(Len(roster) + 1), role |-> defs[i].role,
                            systemPrompt |-> defs[i].systemPrompt]),
            defs, i + 1)

\* defineSpecialists from the answer of the analysis generation on, and start
\* up to the while loop
DefineSpecialists(outcome) ==
    /\ pc = "defining"
    /\ LET metaResponse == MetaAgentProcess(outcome)
           initialChunk == chunks[Len(chunks)]
           metaChunk == ThoughtChunk(nextId, metaResponse, NoVector, R(MetaChunkEnergy),
                                     MetaAgentId, <<initialChunk.id>>, 0)
           specialistDefinitions == safeParse(metaResponse)
           roster == CreateSpecialists(specialists, specialistDefinitions.data, 1)
       IN  /\ chunks' = addChunk(chunks, metaChunk)
           /\ nextId' = nextId + 1
           /\ IF IsFalsy(specialistDefinitions)
              THEN /\ pc' = "rejected"
                   /\ UNCHANGED <<specialists, task>>
              ELSE /\ pc' = "loop"
                   /\ specialists' = roster
                   /\ task' = [s \in {roster[i].id : i \in 1..Len(roster)} |-> NoTask]
    /\ cycleCount' = 0
    /\ finalBroadcast' = ""
    /\ UNCHANGED <<config, broadcasts, activeChunks, cluster, synthesis, result, decayCalls,
                   faults>>

\* the loop not awaiting runCognitiveCycle
CycleMayStart_NoAwait == pc \in {"loop", "fanout", "synthesizing", "embeddingSynthesis"}

\* await this.runCognitiveCycle(): the loop goes on only when the cycle has returned
CycleMayStart == pc = "loop"

\* while (cycleCount < maxCycles): runCognitiveCycle up to Promise.all
CycleStart ==
    /\ CycleMayStart
    /\ cycleCount < config.maxCycles
    /\ \E active \in {getMostActiveChunks(chunks, ActiveLimit)} :
           IF Len(active) = 0
           THEN /\ cycleCount' = cycleCount + 1
                /\ pc' = "loop"
                /\ UNCHANGED <<activeChunks, task>>
           ELSE /\ activeChunks' = Ids(active)
                /\ task' = [s \in SpecialistIdSet |-> [NoTask EXCEPT !.st = "text"]]
                /\ pc' = "fanout"
                /\ UNCHANGED cycleCount
    /\ UNCHANGED <<config, chunks, nextId, specialists, broadcasts, finalBroadcast,
                   cluster, synthesis, result, decayCalls, faults>>

\* SpecialistAgent.process: a failed generation is answered by the error text
SpecialistAgentProcess(outcome) == IF outcome.ok THEN outcome.val ELSE SpecialistErrorText

\* a specialist's generateText call answers; generateEmbedding is called
TextReturn(s, outcome) ==
    /\ s \in DOMAIN task
    /\ task[s].st = "text"
    /\ WithinFaults(outcome, SpecialistText)
    /\ faults' = CountFault(outcome, SpecialistText)
    /\ task' = [task EXCEPT ![s] = [st |-> "embedding",
                                    thought |-> SpecialistAgentProcess(outcome),
                                    generationFailed |-> ~outcome.ok,
                                    createFailed |-> FALSE]]
    /\ UNCHANGED <<pc, config, chunks, nextId, specialists, cycleCount, broadcasts,
                   finalBroadcast, activeChunks, cluster, synthesis, result, decayCalls>>

\* a specialist's task without its try/catch
SpecialistErrorIsCaught_Not == FALSE

\* the try/catch around a specialist's task: an error of createChunk ends the
\* task and nothing else
SpecialistErrorIsCaught == TRUE

\* one task's error ending every task of the cycle
SettleFailed_AbortsAll(s) ==
    [t \in DOMAIN task |->
        IF t = s THEN [task[t] EXCEPT !.st = "settled", !.createFailed = TRUE]
        ELSE [task[t] EXCEPT !.st = "settled"]]

\* the catch block of a specialist's task: the error is logged, the promise resolves
SettleFailed(s) == [task EXCEPT ![s].st = "settled", ![s].createFailed = TRUE]

\* the parentIds read from the workspace when the task creates its chunk
TaskParentIds_Live == Ids(getMostActiveChunks(chunks, ActiveLimit))

\* activeChunks.map((chunk) => chunk.id): the ids of the list the cycle read
\* before it started the tasks
TaskParentIds == activeChunks

\* a specialist's generateEmbedding call answers; createChunk runs
EmbedReturn(s, outcome) ==
    /\ s \in DOMAIN task
    /\ task[s].st = "embedding"
    /\ WithinFaults(outcome, Embedding(task[s].thought))
    /\ faults' = CountFault(outcome, Embedding(task[s].thought))
    /\ \E created \in {createChunk(chunks, config, task[s].thought,
                                   IF outcome.ok THEN outcome.val ELSE NoVector,
                                   s, TaskParentIds, nextId, cycleCount + 1)} :
           IF created.ok
           THEN /\ chunks' = created.val.ws
                /\ nextId' = nextId + 1
                /\ task' = [task EXCEPT ![s].st = "settled"]
                /\ pc' = pc
           ELSE /\ task' = SettleFailed(s)
                /\ pc' = IF SpecialistErrorIsCaught THEN pc ELSE "rejected"
                /\ UNCHANGED <<chunks, nextId>>
    /\ UNCHANGED <<config, specialists, cycleCount, broadcasts, finalBroadcast,
                   activeChunks, cluster, synthesis, result, decayCalls>>

\* Promise.race in place of Promise.all
AllSettled_Race == \E s \in DOMAIN task : task[s].st = "settled"

\* await Promise.all(processingPromises)
AllSettled == \A s \in DOMAIN task : task[s].st = "settled"

\* start keeping the first broadcast as the final one
RecordBroadcast_KeepsFirst(broadcast) ==
    /\ IF broadcast # ""
       THEN /\ broadcasts' = Append(broadcasts, broadcast)
            /\ finalBroadcast' = IF finalBroadcast = "" THEN broadcast ELSE finalBroadcast
       ELSE UNCHANGED <<broadcasts, finalBroadcast>>
    /\ cycleCount' = cycleCount + 1
    /\ pc' = "loop"

\* what start does with a cycle's result
RecordBroadcast(broadcast) ==
    /\ IF broadcast # ""
       THEN /\ broadcasts' = Append(broadcasts, broadcast)
            /\ finalBroadcast' = broadcast
       ELSE UNCHANGED <<broadcasts, finalBroadcast>>
    /\ cycleCount' = cycleCount + 1
    /\ pc' = "loop"

\* runCognitiveCycle after Promise.all: decay, cluster check
DecayAndCheck ==
    /\ pc = "fanout"
    /\ AllSettled
    /\ decayCalls' = decayCalls + 1
    /\ \E decayed \in {decayActivations(chunks, config)} :
       \E highEnergyCluster \in {findHighEnergyCluster(decayed, config)} :
           /\ chunks' = decayed
           /\ cluster' = Ids(highEnergyCluster)
           /\ IF Len(highEnergyCluster) > 0
              THEN /\ pc' = "synthesizing"
                   /\ UNCHANGED <<cycleCount, broadcasts, finalBroadcast>>
              ELSE /\ cycleCount' = cycleCount + 1
                   /\ pc' = "loop"
                   /\ UNCHANGED <<broadcasts, finalBroadcast>>
    /\ UNCHANGED <<config, nextId, specialists, activeChunks, task, synthesis, result, faults>>

\* processBroadcast without its try/catch
BroadcastErrorIsCaught_Not == FALSE

\* the try/catch of processBroadcast
BroadcastErrorIsCaught == TRUE

\* processBroadcast: the synthesis generation answers
SynthesisReturn(outcome) ==
    /\ pc = "synthesizing"
    /\ WithinFaults(outcome, SynthesisText)
    /\ faults' = CountFault(outcome, SynthesisText)
    /\ IF outcome.ok
       THEN /\ synthesis' = outcome.val
            /\ pc' = "embeddingSynthesis"
            /\ UNCHANGED <<cycleCount, broadcasts, finalBroadcast>>
       ELSE /\ IF BroadcastErrorIsCaught
               THEN RecordBroadcast(BroadcastErrorText)
               ELSE /\ pc' = "rejected"
                    /\ UNCHANGED <<cycleCount, broadcasts, finalBroadcast>>
            /\ UNCHANGED synthesis
    /\ UNCHANGED <<config, chunks, nextId, specialists, activeChunks, task, cluster,
                   result, decayCalls>>

\* processBroadcast: createChunk(synthesis, contentVector, "broadcast", ids of
\* the cluster), the embedding call having failed or answered
BroadcastChunk(outcome) ==
    createChunk(chunks, config, synthesis,
                IF outcome.ok THEN outcome.val ELSE NoVector,
                "broadcast", cluster, nextId, cycleCount + 1)

\* processBroadcast: the synthesis embedding answers; the broadcast chunk is
\* created and boosted
SynthesisEmbedReturn(outcome) ==
    /\ pc = "embeddingSynthesis"
    /\ WithinFaults(outcome, Embedding(synthesis))
    /\ faults' = CountFault(outcome, Embedding(synthesis))
    /\ \E created \in {BroadcastChunk(outcome)} :
           IF created.ok
           THEN /\ chunks' = addChunk(created.val.ws,
                                      boost(created.val.chunk, R(BroadcastBoost)))
                /\ nextId' = nextId + 1
                /\ RecordBroadcast(synthesis)
           ELSE /\ IF BroadcastErrorIsCaught
                   THEN RecordBroadcast(BroadcastErrorText)
                   ELSE /\ pc' = "rejected"
                        /\ UNCHANGED <<cycleCount, broadcasts, finalBroadcast>>
                /\ UNCHANGED <<chunks, nextId>>
    /\ UNCHANGED <<config, specialists, activeChunks, task, cluster, synthesis,
                   result, decayCalls>>

\* start after the while loop: the result is returned
Complete ==
    /\ pc = "loop"
    /\ ~(cycleCount < config.maxCycles)
    /\ result' = [returned |-> TRUE, finalBroadcast |-> finalBroadcast,
                  broadcasts |-> broadcasts, cyclesExecuted |-> cycleCount,
                  thoughts |-> getAllChunks(chunks),
                  totalAgents |-> Len(specialists) + 1]
    /\ pc' = "completed"
    /\ UNCHANGED <<config, chunks, nextId, specialists, cycleCount, broadcasts,
                   finalBroadcast, activeChunks, task, cluster, synthesis, decayCalls, faults>>

Next ==
    \/ \E p \in UserPrompts : Start(p) /\ UNCHANGED axonVars
    \/ \E o \in MetaOutcomes : DefineSpecialists(o) /\ UNCHANGED axonVars
    \/ CycleStart /\ UNCHANGED axonVars
    \/ \E s \in SpecialistIdSet, o \in SpecialistTextOutcomes :
          TextReturn(s, o) /\ UNCHANGED axonVars
    \/ \E s \in SpecialistIdSet :
          \E o \in EmbeddingOutcomes(task[s].thought) : EmbedReturn(s, o) /\ UNCHANGED axonVars
    \/ DecayAndCheck /\ UNCHANGED axonVars
    \/ \E o \in SynthesisTextOutcomes : SynthesisReturn(o) /\ UNCHANGED axonVars
    \/ \E o \in EmbeddingOutcomes(synthesis) : SynthesisEmbedReturn(o) /\ UNCHANGED axonVars
    \/ Complete /\ UNCHANGED axonVars

Spec == Init /\ [][Next]_vars

\* the run goes on by itself, and every external call is answered
FairSpec == Spec /\ WF_vars(Next)

-----------------------------------------------------------------------------
(* A run through processWithStreaming.  The method replaces the             *)
(* orchestrator's runCognitiveCycle and processBroadcast by wrappers that   *)
(* emit "cycleCompleted" and "broadcast", and calls process.  emit calls    *)
(* the listeners synchronously: a listener returns, or throws, and what it  *)
(* throws comes out of emit.                                                *)

ListenerOutcomes == {"returns", "throws"}

\* an event as the listeners get it; cycle is the cycle of start's loop
\* during which it is emitted
Event(event, value) == [event |-> event, value |-> value, cycle |-> cycleCount + 1]

\* let cycleCount of processWithStreaming: the calls of the wrapper so far
StreamingCycleCount ==
    Len(SelectSeq(emitted, LAMBDA e : e.event = "cycleCompleted"))

\* the wrapper of runCognitiveCycle up to the original's Promise.all:
\* cycleCount++, emit("cycleCompleted", cycleCount), then the original
StreamingCycleStart(listener) ==
    /\ CycleMayStart
    /\ cycleCount < config.maxCycles
    /\ emitted' = Append(emitted, Event("cycleCompleted", StreamingCycleCount + 1))
    /\ IF listener = "returns"
       THEN CycleStart
       ELSE /\ pc' = "rejected"
            /\ UNCHANGED <<config, chunks, nextId, specialists, cycleCount, broadcasts,
                           finalBroadcast, activeChunks, task, cluster, synthesis,
                           result, decayCalls, faults>>

\* the wrapper of processBroadcast when the synthesis generation answers: the
\* original goes on to the embedding call, or returns the error text, which
\* the wrapper emits before it returns it
StreamingSynthesisReturn(outcome, listener) ==
    /\ pc = "synthesizing"
    /\ IF outcome.ok \/ ~BroadcastErrorIsCaught
       THEN /\ listener = "returns"
            /\ SynthesisReturn(outcome)
            /\ UNCHANGED emitted
       ELSE /\ emitted' = Append(emitted, Event("broadcast", BroadcastErrorText))
            /\ IF listener = "returns"
               THEN SynthesisReturn(outcome)
               ELSE /\ WithinFaults(outcome, SynthesisText)
                    /\ faults' = CountFault(outcome, SynthesisText)
                    /\ pc' = "rejected"
                    /\ UNCHANGED <<config, chunks, nextId, specialists, cycleCount,
                                   broadcasts, finalBroadcast, activeChunks, task,
                                   cluster, synthesis, result, decayCalls>>

\* the wrapper of processBroadcast when the synthesis embedding answers: the
\* original creates the chunk and returns the synthesis, or the error text;
\* the wrapper emits what it returned
StreamingSynthesisEmbedReturn(outcome, listener) ==
    /\ pc = "embeddingSynthesis"
    /\ \E created \in {BroadcastChunk(outcome)} :
           IF ~created.ok /\ ~BroadcastErrorIsCaught
           THEN /\ listener = "returns"
                /\ SynthesisEmbedReturn(outcome)
                /\ UNCHANGED emitted
           ELSE /\ emitted' = Append(emitted,
                                     Event("broadcast",
                                           IF created.ok THEN synthesis
                                           ELSE BroadcastErrorText))
                /\ IF listener = "returns"
                   THEN SynthesisEmbedReturn(outcome)
                   ELSE /\ WithinFaults(outcome, Embedding(synthesis))
                        /\ faults' = CountFault(outcome, Embedding(synthesis))
                        /\ IF created.ok
                           THEN /\ chunks' = addChunk(created.val.ws,
                                                boost(created.val.chunk,
                                                      R(BroadcastBoost)))
                                /\ nextId' = nextId + 1
                           ELSE UNCHANGED <<chunks, nextId>>
                        /\ pc' = "rejected"
                        /\ UNCHANGED <<config, specialists, cycleCount, broadcasts,
                                       finalBroadcast, activeChunks, task, cluster,
                                       synthesis, result, decayCalls>>

StreamingNext ==
    \/ \E p \in UserPrompts : Start(p) /\ UNCHANGED axonVars
    \/ \E o \in MetaOutcomes : DefineSpecialists(o) /\ UNCHANGED axonVars
    \/ \E l \in ListenerOutcomes : StreamingCycleStart(l) /\ UNCHANGED serviceVars
    \/ \E s \in SpecialistIdSet, o \in SpecialistTextOutcomes :
          TextReturn(s, o) /\ UNCHANGED axonVars
    \/ \E s \in SpecialistIdSet :
          \E o \in EmbeddingOutcomes(task[s].thought) :
             EmbedReturn(s, o) /\ UNCHANGED axonVars
    \/ DecayAndCheck /\ UNCHANGED axonVars
    \/ \E o \in SynthesisTextOutcomes, l \in ListenerOutcomes :
          StreamingSynthesisReturn(o, l) /\ UNCHANGED serviceVars
    \/ \E o \in EmbeddingOutcomes(synthesis), l \in ListenerOutcomes :
          StreamingSynthesisEmbedReturn(o, l) /\ UNCHANGED serviceVars
    \/ Complete /\ UNCHANGED axonVars

StreamingSpec == Init /\ [][StreamingNext]_vars

-----------------------------------------------------------------------------
(* Several runs on one instance.  The Axon constructor creates the          *)
(* Workspace and the Orchestrator once; every call of process calls start  *)
(* on that Orchestrator, whose workspace and specialists map live on.  A    *)
(* caller starts the next run when the run before it has returned or        *)
(* rejected.  The instance is configured without decay and without         *)
(* resonance, with the default number of cycles; the external calls        *)
(* answer normally, the analysis with one definition or with a text that   *)
(* does not parse.                                                         *)

\* the configuration of the instance: the defaults, with decayRate 1 and
\* maxResonanceFactor 0
RunsConfigs ==
    {[DefaultConfig EXCEPT !.decayRate = R(1), !.maxResonanceFactor = R(0)]}

\* the calls of start made so far: each one added a chunk of source "user"
UserChunks == {i \in 1..Len(chunks) : chunks[i].sourceAgentId = "user"}

\* what the analysis generation answers in these runs
RunsMetaOutcomes == {Returned(DefinitionsText[1]), Returned("{}")}

RunsInit ==
    /\ pc = "constructed"
    /\ config \in RunsConfigs
    /\ chunks = <<>>
    /\ nextId = 1
    /\ specialists = <<>>
    /\ cycleCount = 0
    /\ broadcasts = <<>>
    /\ finalBroadcast = ""
    /\ activeChunks = <<>>
    /\ task = [s \in {} |-> NoTask]
    /\ cluster = <<>>
    /\ synthesis = ""
    /\ result = NoResult
    /\ decayCalls = 0
    /\ faults = 0
    /\ emitted = <<>>
    /\ ServicesInit

\* start called again on the same orchestrator, up to the first await: the
\* locals of the call are new, the workspace is the one the runs before left
NextRun(userPrompt) ==
    /\ pc \in {"completed", "rejected"}
    /\ Cardinality(UserChunks) < MaxRuns
    /\ chunks' = addChunk(chunks,
                    ThoughtChunk(nextId, userPrompt, NoVector, R(UserChunkEnergy),
                                 "user", <<>>, 0))
    /\ nextId' = nextId + 1
    /\ broadcasts' = <<>>
    /\ cycleCount' = 0
    /\ finalBroadcast' = ""
    /\ result' = NoResult
    /\ pc' = IF userPrompt = "" THEN "rejected" ELSE "defining"
    /\ UNCHANGED <<config, specialists, activeChunks, task, cluster, synthesis,
                   decayCalls, faults>>

RunsNext ==
    \/ \E p \in UserPrompts : Start(p) /\ UNCHANGED axonVars
    \/ \E p \in UserPrompts : NextRun(p) /\ UNCHANGED axonVars
    \/ \E o \in RunsMetaOutcomes : DefineSpecialists(o) /\ UNCHANGED axonVars
    \/ CycleStart /\ UNCHANGED axonVars
    \/ \E s \in SpecialistIdSet : TextReturn(s, Returned(SpecialistText)) /\ UNCHANGED axonVars
    \/ \E s \in SpecialistIdSet :
          EmbedReturn(s, Returned(Embedding(task[s].thought))) /\ UNCHANGED axonVars
    \/ DecayAndCheck /\ UNCHANGED axonVars
    \/ SynthesisReturn(Returned(SynthesisText)) /\ UNCHANGED axonVars
    \/ SynthesisEmbedReturn(Returned(Embedding(synthesis))) /\ UNCHANGED axonVars
    \/ Complete /\ UNCHANGED axonVars

RunsSpec == RunsInit /\ [][RunsNext]_vars

-----------------------------------------------------------------------------
(* A run on an instance whose workspace is not empty.  The caller has put   *)
(* chunks of its own in the workspace (axon.getWorkspace().addChunk)        *)
(* before calling process; the run is the run of Spec.                      *)

\* n unrelated chunks of energy 1/2 put in by the caller
Seeds(n) ==
    [i \in 1..n |-> ThoughtChunk(i, "seed", NoVector, Frac(1, 2), "caller", <<>>, 0)]

SeededInit ==
    /\ pc = "constructed"
    /\ config \in Configs
    /\ chunks = Seeds(MaxSeeds)
    /\ nextId = MaxSeeds + 1
    /\ specialists = <<>>
    /\ cycleCount = 0
    /\ broadcasts = <<>>
    /\ finalBroadcast = ""
    /\ activeChunks = <<>>
    /\ task = [s \in {} |-> NoTask]
    /\ cluster = <<>>
    /\ synthesis = ""
    /\ result = NoResult
    /\ decayCalls = 0
    /\ faults = 0
    /\ emitted = <<>>
    /\ ServicesInit

SeededSpec == SeededInit /\ [][Next]_vars

-----------------------------------------------------------------------------
(* The workspace used on its own, through its public operations.  A caller  *)
(* fills a Workspace with addChunk and createChunk, lets it decay and      *)
(* closes by asking for the high-energy cluster.  The variables of the      *)
(* orchestrator are not used; pc is "workspace", and "found" when cluster   *)
(* holds the answer of findHighEnergyCluster on the chunks as they are.     *)

\* n unrelated chunks of energy 2 put in with addChunk(new ThoughtChunk({...}))
Fillers(n) ==
    [i \in 1..n |-> ThoughtChunk(i, "filler", NoVector, R(2), "user", <<>>, 0)]

AddedChunks == {i \in 1..Len(chunks) : chunks[i].content # "filler"}

\* the parentIds a caller gives: none, or the chunk put in last
ParentChoices ==
    {<<>>} \cup (IF chunks = <<>> THEN {} ELSE {<<chunks[Len(chunks)].id>>})

\* the workspace configurations of a caller: the default threshold, and, for
\* a workspace that starts empty, a threshold that a single chunk reaches
WsConfigs == {DefaultConfig, [DefaultConfig EXCEPT !.activationThreshold = R(2)]}

WsInit ==
    /\ pc = "workspace"
    /\ config \in WsConfigs
    /\ chunks \in {Fillers(0), Fillers(MaxFillers)}
    /\ config # DefaultConfig => chunks = Fillers(0)
    /\ nextId = Len(chunks) + 1
    /\ specialists = <<>>
    /\ cycleCount = 0
    /\ broadcasts = <<>>
    /\ finalBroadcast = ""
    /\ activeChunks = <<>>
    /\ task = [s \in {} |-> NoTask]
    /\ cluster = <<>>
    /\ synthesis = ""
    /\ result = NoResult
    /\ decayCalls = 0
    /\ faults = 0
    /\ emitted = <<>>
    /\ ServicesInit

\* workspace.addChunk(new ThoughtChunk({activationEnergy: 3, parentIds, ...}))
WsAddChunk(parentIds) ==
    /\ pc = "workspace"
    /\ Cardinality(AddedChunks) < MaxAdded
    /\ chunks' = addChunk(chunks,
                    ThoughtChunk(nextId, "note", NoVector, R(3), "user",
                                 parentIds, 0))
    /\ nextId' = nextId + 1
    /\ pc' = "workspace"
    /\ UNCHANGED <<config, specialists, cycleCount, broadcasts, finalBroadcast,
                   activeChunks, task, cluster, synthesis, result, decayCalls, faults>>

\* workspace.createChunk(content, undefined, sourceAgentId, parentIds)
WsCreateChunk(parentIds) ==
    /\ pc = "workspace"
    /\ Cardinality(AddedChunks) < MaxAdded
    /\ \E created \in {createChunk(chunks, config, "note", NoVector, "user", parentIds,
                                   nextId, 0)} :
           /\ created.ok
           /\ chunks' = created.val.ws
    /\ nextId' = nextId + 1
    /\ pc' = "workspace"
    /\ UNCHANGED <<config, specialists, cycleCount, broadcasts, finalBroadcast,
                   activeChunks, task, cluster, synthesis, result, decayCalls, faults>>

\* workspace.decayActivations()
WsDecayActivations ==
    /\ pc = "workspace"
    /\ decayCalls < MaxDecays
    /\ chunks' = decayActivations(chunks, config)
    /\ decayCalls' = decayCalls + 1
    /\ pc' = "workspace"
    /\ UNCHANGED <<config, nextId, specialists, cycleCount, broadcasts, finalBroadcast,
                   activeChunks, task, cluster, synthesis, result, faults>>

\* workspace.findHighEnergyCluster()
WsFindHighEnergyCluster ==
    /\ pc = "workspace"
    /\ cluster' = Ids(findHighEnergyCluster(chunks, config))
    /\ pc' = "found"
    /\ UNCHANGED <<config, chunks, nextId, specialists, cycleCount, broadcasts,
                   finalBroadcast, activeChunks, task, synthesis, result, decayCalls,
                   faults>>

WsNext ==
    \/ \E parentIds \in ParentChoices : WsAddChunk(parentIds) /\ UNCHANGED axonVars
    \/ \E parentIds \in ParentChoices : WsCreateChunk(parentIds) /\ UNCHANGED axonVars
    \/ WsDecayActivations /\ UNCHANGED axonVars
    \/ WsFindHighEnergyCluster /\ UNCHANGED axonVars

WsSpec == WsInit /\ [][WsNext]_vars

-----------------------------------------------------------------------------
(* A small workspace with embeddings, used on its own.  A caller puts in    *)
(* chunks of its own making with addChunk, creates chunks with createChunk  *)
(* (with or without an embedding; with parentIds that name the chunks of    *)
(* the workspace, and an id that names none), lets the workspace decay and  *)
(* closes with getMostActiveChunks: pc is then "listed" and activeChunks    *)
(* holds the answer.                                                        *)

\* the chunks a caller makes itself
AddedKinds ==
    {[contentVector |-> <<1, 0>>, activationEnergy |-> R(4)],
     [contentVector |-> <<0, 1>>, activationEnergy |-> R(2)],
     [contentVector |-> NoVector, activationEnergy |-> R(3)]}

\* the embeddings a caller gives createChunk: none, or a vector
CreatedVectors == {NoVector, <<1, 0>>}

\* the parentIds a caller gives createChunk: none, every chunk of the
\* workspace, and these followed by the id 0 that no chunk has
RsParentChoices == {<<>>, Ids(chunks), Ids(chunks) \o <<0>>}

\* the limits a caller asks getMostActiveChunks for: none, fewer than
\* MaxChunks, more than MaxChunks
Limits == {0, 2, 10}

RsInit ==
    /\ pc = "workspace"
    /\ config = DefaultConfig
    /\ chunks = <<>>
    /\ nextId = 1
    /\ specialists = <<>>
    /\ cycleCount = 0
    /\ broadcasts = <<>>
    /\ finalBroadcast = ""
    /\ activeChunks = <<>>
    /\ task = [s \in {} |-> NoTask]
    /\ cluster = <<>>
    /\ synthesis = ""
    /\ result = NoResult
    /\ decayCalls = 0
    /\ faults = 0
    /\ emitted = <<>>
    /\ ServicesInit

\* workspace.addChunk(new ThoughtChunk({contentVector, activationEnergy, ...}))
RsAddChunk(kind) ==
    /\ pc = "workspace"
    /\ Len(chunks) < MaxChunks
    /\ chunks' = addChunk(chunks,
                    ThoughtChunk(nextId, "note", kind.contentVector, kind.activationEnergy,
                                 "user", <<>>, 0))
    /\ nextId' = nextId + 1
    /\ UNCHANGED <<pc, config, specialists, cycleCount, broadcasts, finalBroadcast,
                   activeChunks, task, cluster, synthesis, result, decayCalls, faults>>

\* workspace.createChunk(content, contentVector, sourceAgentId, parentIds)
RsCreateChunk(contentVector, parentIds) ==
    /\ pc = "workspace"
    /\ Len(chunks) < MaxChunks
    /\ \E created \in {createChunk(chunks, config, "thought", contentVector, "agent",
                                   parentIds, nextId, 0)} :
           /\ created.ok
           /\ chunks' = created.val.ws
    /\ nextId' = nextId + 1
    /\ UNCHANGED <<pc, config, specialists, cycleCount, broadcasts, finalBroadcast,
                   activeChunks, task, cluster, synthesis, result, decayCalls, faults>>

\* workspace.decayActivations()
RsDecayActivations ==
    /\ pc = "workspace"
    /\ decayCalls < MaxDecays
    /\ chunks' = decayActivations(chunks, config)
    /\ decayCalls' = decayCalls + 1
    /\ UNCHANGED <<pc, config, nextId, specialists, cycleCount, broadcasts, finalBroadcast,
                   activeChunks, task, cluster, synthesis, result, faults>>

\* workspace.getMostActiveChunks(limit), the caller's closing call
RsGetMostActiveChunks(limit) ==
    /\ pc = "workspace"
    /\ activeChunks' = Ids(getMostActiveChunks(chunks, limit))
    /\ pc' = "listed"
    /\ UNCHANGED <<config, chunks, nextId, specialists, cycleCount, broadcasts,
                   finalBroadcast, task, cluster, synthesis, result, decayCalls, faults>>

RsNext ==
    \/ \E kind \in AddedKinds : RsAddChunk(kind) /\ UNCHANGED axonVars
    \/ \E contentVector \in CreatedVectors, parentIds \in RsParentChoices :
          RsCreateChunk(contentVector, parentIds) /\ UNCHANGED axonVars
    \/ RsDecayActivations /\ UNCHANGED axonVars
    \/ \E limit \in Limits : RsGetMostActiveChunks(limit) /\ UNCHANGED axonVars

RsSpec == RsInit /\ [][RsNext]_vars

-----------------------------------------------------------------------------
(* The read operations of a workspace used on its own.  A caller builds a   *)
(* small workspace as above and reads it between the writes; it keeps what  *)
(* each read answered: getChunk and findHighEnergyCluster in cluster,       *)
(* getMostActiveChunks in activeChunks, getAllChunks in result.thoughts.    *)

\* sort called on the Map's own sequence of values
ValuesAfterSort_InPlace(ws, sorted) == sorted

\* Array.from(this.chunks.values()).sort(...): the sort works on the array
\* Array.from made; the Map's values and their order are as before
ValuesAfterSort(ws, sorted) == ws

\* the ids a caller asks getChunk for: the first of the workspace, and the
\* next id, which no chunk has yet
ReadIds == {1, nextId}

\* the chunks the caller of the reads makes itself: those with an embedding
\* along the first axis or with none
RdAddedKinds == {kind \in AddedKinds : kind.contentVector # <<0, 1>>}

\* the limits the caller of the reads asks for: fewer than MaxChunks, more
RdLimits == Limits \ {0}

\* workspace.getChunk(id)
RdGetChunk(id) ==
    /\ pc = "workspace"
    /\ cluster' = IF HasChunk(chunks, id) THEN Ids(<<getChunk(chunks, id)>>) ELSE <<>>
    /\ UNCHANGED <<pc, config, chunks, nextId, specialists, cycleCount, broadcasts,
                   finalBroadcast, activeChunks, task, synthesis, result, decayCalls,
                   faults>>

\* workspace.getAllChunks()
RdGetAllChunks ==
    /\ pc = "workspace"
    /\ result' = [result EXCEPT !.thoughts = getAllChunks(chunks)]
    /\ UNCHANGED <<pc, config, chunks, nextId, specialists, cycleCount, broadcasts,
                   finalBroadcast, activeChunks, task, cluster, synthesis, decayCalls,
                   faults>>

\* workspace.getMostActiveChunks(limit)
RdGetMostActiveChunks(limit) ==
    /\ pc = "workspace"
    /\ activeChunks' = Ids(getMostActiveChunks(chunks, limit))
    /\ chunks' = ValuesAfterSort(chunks, SortDesc(ActivationEnergyOf, chunks))
    /\ UNCHANGED <<pc, config, nextId, specialists, cycleCount, broadcasts,
                   finalBroadcast, task, cluster, synthesis, result, decayCalls, faults>>

\* workspace.findHighEnergyCluster(), which reads getMostActiveChunks(30)
RdFindHighEnergyCluster ==
    /\ pc = "workspace"
    /\ cluster' = Ids(findHighEnergyCluster(chunks, config))
    /\ chunks' = ValuesAfterSort(chunks, SortDesc(ActivationEnergyOf, chunks))
    /\ UNCHANGED <<pc, config, nextId, specialists, cycleCount, broadcasts,
                   finalBroadcast, activeChunks, task, synthesis, result, decayCalls,
                   faults>>

RdNext ==
    \/ \E kind \in RdAddedKinds : RsAddChunk(kind) /\ UNCHANGED axonVars
    \/ \E parentIds \in {Ids(chunks)} : RsCreateChunk(<<1, 0>>, parentIds) /\ UNCHANGED axonVars
    \/ RsDecayActivations /\ UNCHANGED axonVars
    \/ \E id \in ReadIds : RdGetChunk(id) /\ UNCHANGED axonVars
    \/ RdGetAllChunks /\ UNCHANGED axonVars
    \/ \E limit \in RdLimits : RdGetMostActiveChunks(limit) /\ UNCHANGED axonVars
    \/ RdFindHighEnergyCluster /\ UNCHANGED axonVars

RdSpec == RsInit /\ [][RdNext]_vars

-----------------------------------------------------------------------------

(* The two similarity functions on their own: Workspace.cosineSimilarity    *)
(* and EmbeddingService.calculateSimilarity, called on pairs of vectors;    *)
(* args holds the function's name and the two vectors, answer the result.   *)
(* The functions read nothing but their arguments, so one call from the new *)
(* instance stands for a call at any time.                                  *)

\* EmbeddingService.calculateSimilarity
calculateSimilarity(vecA, vecB) ==
    IF Len(vecA) # Len(vecB) THEN Thrown
    ELSE LET dotProduct == SumProducts(vecA, vecB, 1)
             normA == SumProducts(vecA, vecA, 1)
             normB == SumProducts(vecB, vecB, 1)
         IN  IF normA = 0 \/ normB = 0 THEN Returned(R(0))
             ELSE Returned(Frac(dotProduct, Sqrt(normA) * Sqrt(normB)))

IsSquare(n) == \E r \in 0..n : r * r = n

\* the vectors compared: every vector of two components within the bound
\* whose squared norm is a perfect square, some of three components, and
\* one of one component
SimilarityVectors ==
    {v \in [1..2 -> -MaxComponent..MaxComponent] : IsSquare(SumProducts(v, v, 1))}
        \cup {<<0, 0, 0>>, <<1, 2, 2>>, <<2, 1, -2>>, <<-2, 2, -1>>, <<1>>}

\* workspace.cosineSimilarity(vecA, vecB)
CosCosineSimilarity(vecA, vecB) ==
    /\ args = <<>>
    /\ args' = <<"cosineSimilarity", vecA, vecB>>
    /\ answer' = cosineSimilarity(vecA, vecB)
    /\ UNCHANGED <<runVars, emitted, methods, streams, axonConfig, cache>>

\* embeddingService.calculateSimilarity(vecA, vecB)
CosCalculateSimilarity(vecA, vecB) ==
    /\ args = <<>>
    /\ args' = <<"calculateSimilarity", vecA, vecB>>
    /\ answer' = calculateSimilarity(vecA, vecB)
    /\ UNCHANGED <<runVars, emitted, methods, streams, axonConfig, cache>>

CosNext ==
    \/ \E vecA, vecB \in SimilarityVectors : CosCosineSimilarity(vecA, vecB)
    \/ \E vecA, vecB \in SimilarityVectors : CosCalculateSimilarity(vecA, vecB)

CosSpec == RsInit /\ [][CosNext]_vars

-----------------------------------------------------------------------------

(* The EmbeddingService on its own.  A text is the sequence of its          *)
(* characters.  A caller asks getEmbedding for texts, the generation        *)
(* capability answers each miss with the text's embedding or fails, and     *)
(* the caller clears the cache at times.  args holds the text of the last   *)
(* getEmbedding call, answer what the call returned or that it threw.       *)

\* text.substring(0, 100)
cacheKey(text) == SubSeq(text, 1, Min(100, Len(text)))

\* a text of n characters "a" followed by the characters of ending
Padded(n, ending) == [i \in 1..n |-> "a"] \o ending

\* the texts asked for: three short ones, one of exactly 100 characters,
\* and two of 101 characters that differ in the last one only
ServiceTexts ==
    <<Padded(1, <<>>), Padded(0, <<"b">>), Padded(1, <<"b">>), Padded(100, <<>>),
      Padded(100, <<"x">>), Padded(100, <<"y">>)>>

\* llmService.generateEmbedding(text) when it answers: each text has an
\* embedding of its own
TextEmbedding(text) ==
    Call(LAMBDA k : <<k, 1>>, CHOOSE k \in 1..Len(ServiceTexts) : ServiceTexts[k] = text)

\* what the generation capability does with a call
GenerationOutcomes(text) == {Thrown, Returned(TextEmbedding(text))}

\* embeddingService.getEmbedding(text); outcome is what generateEmbedding
\* does if the call gets to it
EmbGetEmbedding(text, outcome) ==
    /\ args' = <<text>>
    /\ IF cacheKey(text) \in DOMAIN cache
       THEN /\ outcome.ok
            /\ answer' = Returned(cache[cacheKey(text)])
            /\ UNCHANGED cache
       ELSE IF outcome.ok
       THEN /\ cache' = Spread(cache, cacheKey(text) :> outcome.val)
            /\ answer' = Returned(outcome.val)
       ELSE /\ answer' = Thrown
            /\ UNCHANGED cache
    /\ UNCHANGED <<runVars, emitted, methods, streams, axonConfig>>

\* embeddingService.clearCache()
EmbClearCache ==
    /\ cache' = <<>>
    /\ UNCHANGED <<runVars, emitted, methods, streams, axonConfig, args, answer>>

EmbNext ==
    \/ \E k \in 1..Len(ServiceTexts) :
          \E outcome \in GenerationOutcomes(ServiceTexts[k]) :
             EmbGetEmbedding(ServiceTexts[k], outcome)
    \/ EmbClearCache

EmbSpec == RsInit /\ [][EmbNext]_vars

-----------------------------------------------------------------------------

(* updateConfig before a run.  The caller of a new Axon calls updateConfig  *)
(* with partial configurations and then process; args holds the argument    *)
(* of the last updateConfig call.                                           *)

\* the partial configurations a caller gives updateConfig
PartialConfigs ==
    {<<>>,
     [workspace |-> [decayRate |-> R(1)]],
     [workspace |-> [activationThreshold |-> R(9)]],
     [orchestrator |-> [maxCycles |-> 1]],
     [workspace |-> [activationThreshold |-> R(7)], orchestrator |-> [maxCycles |-> 2]]}

\* axon.updateConfig(newConfig)
UpdateConfig(newConfig) ==
    /\ pc = "constructed"
    /\ axonConfig' = createConfig(Spread(axonConfig, newConfig))
    /\ args' = <<newConfig>>
    /\ UNCHANGED <<runVars, emitted, methods, streams, cache, answer>>

ConfigNext ==
    \/ \E newConfig \in PartialConfigs : UpdateConfig(newConfig)
    \/ \E p \in UserPrompts : Start(p) /\ UNCHANGED axonVars
    \/ \E o \in RunsMetaOutcomes : DefineSpecialists(o) /\ UNCHANGED axonVars
    \/ CycleStart /\ UNCHANGED axonVars
    \/ \E s \in SpecialistIdSet : TextReturn(s, Returned(SpecialistText)) /\ UNCHANGED axonVars
    \/ \E s \in SpecialistIdSet :
          EmbedReturn(s, Returned(Embedding(task[s].thought))) /\ UNCHANGED axonVars
    \/ DecayAndCheck /\ UNCHANGED axonVars
    \/ SynthesisReturn(Returned(SynthesisText)) /\ UNCHANGED axonVars
    \/ SynthesisEmbedReturn(Returned(Embedding(synthesis))) /\ UNCHANGED axonVars
    \/ Complete /\ UNCHANGED axonVars

ConfigSpec == Init /\ [][ConfigNext]_vars

-----------------------------------------------------------------------------

(* processWithStreaming calls on one instance.  StreamingSpec follows one   *)
(* call through its run with the wrappers in place.  Here what is followed  *)
(* is which functions the orchestrator's two properties hold while calls    *)
(* of processWithStreaming begin and settle in any order, and what a cycle  *)
(* of a run emits through them; a run is reduced to the cycles its loop     *)
(* executes.  When no processWithStreaming call is under way a cycle is one *)
(* of a plain process call.                                                 *)

\* the calls whose wrappers a call of method goes through, outermost first:
\* each wrapper calls the function its call captured
RECURSIVE WrapperChain(_, _)
WrapperChain(method, captured) ==
    IF method = OriginalMethod THEN <<>>
    ELSE <<method.wrapper>> \o WrapperChain(streams[method.wrapper][captured], captured)

Reverse(list) == [i \in 1..Len(list) |-> list[Len(list) + 1 - i]]

\* processWithStreaming up to await this.process: the two properties are
\* captured and replaced by the wrappers of this call
StreamingCall(c) ==
    /\ streams[c].st = "idle"
    /\ \A d \in Calls : d < c => streams[d].st # "idle"
    /\ streams' = [streams EXCEPT ![c] =
                      [st |-> "running",
                       originalRunCognitiveCycle |-> methods.runCognitiveCycle,
                       originalProcessBroadcast |-> methods.processBroadcast,
                       cycleCount |-> 0]]
    /\ methods' = [runCognitiveCycle |-> [wrapper |-> c],
                   processBroadcast |-> [wrapper |-> c]]
    /\ UNCHANGED <<runVars, emitted, axonConfig, cache, args, answer>>

\* the finally block of processWithStreaming, process having returned or
\* thrown: the captured functions are put back
StreamingSettle(c, outcome) ==
    /\ streams[c].st = "running"
    /\ methods' = [runCognitiveCycle |-> streams[c].originalRunCognitiveCycle,
                   processBroadcast |-> streams[c].originalProcessBroadcast]
    /\ streams' = [streams EXCEPT ![c].st = outcome]
    /\ UNCHANGED <<runVars, emitted, axonConfig, cache, args, answer>>

\* a cycle of a run: start calls this.runCognitiveCycle(), each wrapper it
\* goes through counts and emits "cycleCompleted" before it calls on; if
\* the cycle broadcasts, runCognitiveCycle calls this.processBroadcast(),
\* and each wrapper it went through emits "broadcast" after the inner call
OrchestratorCycle(broadcast) ==
    LET cycleChain == WrapperChain(methods.runCognitiveCycle, "originalRunCognitiveCycle")
        broadcastChain ==
            IF broadcast
            THEN Reverse(WrapperChain(methods.processBroadcast, "originalProcessBroadcast"))
            ELSE <<>>
    IN  /\ \A k \in 1..Len(cycleChain) : streams[cycleChain[k]].cycleCount < MaxCycles
        /\ emitted' = emitted
              \o [k \in 1..Len(cycleChain) |->
                    [event |-> "cycleCompleted",
                     value |-> streams[cycleChain[k]].cycleCount + 1]]
              \o [k \in 1..Len(broadcastChain) |->
                    [event |-> "broadcast", value |-> SynthesisText]]
        /\ streams' = [c \in Calls |->
                          IF \E k \in 1..Len(cycleChain) : cycleChain[k] = c
                          THEN [streams[c] EXCEPT !.cycleCount = @ + 1]
                          ELSE streams[c]]
        /\ UNCHANGED <<runVars, methods, axonConfig, cache, args, answer>>

OverlapNext ==
    \/ \E c \in Calls : StreamingCall(c)
    \/ \E c \in Calls, outcome \in {"returned", "thrown"} : StreamingSettle(c, outcome)
    \/ \E broadcast \in BOOLEAN : OrchestratorCycle(broadcast)

OverlapSpec == Init /\ [][OverlapNext]_vars

-----------------------------------------------------------------------------

(* Properties of the orchestrator *)

PendingStates == {"text", "embedding"}
ChunkIndexes == 1..Len(chunks)
\* the chunks a source added in a cycle (cycle 0: before the first cycle)
ChunksOf(source, cycle) ==
    {i \in ChunkIndexes : chunks[i].sourceAgentId = source /\ chunks[i].createdAt = cycle}

\* C1: decay and the cluster check of a cycle run only when every specialist
\* task of that cycle has finished, by creating its chunk or by failing; no
\* task is pending when decayActivations is applied.
C1_DecayAfterAllSpecialists ==
    [][decayCalls' # decayCalls =>
          /\ pc = "fanout"
          /\ DOMAIN task = SpecialistIdSet
          /\ \A s \in SpecialistIdSet :
                /\ task[s].st = "settled"
                /\ task[s].createFailed \/ ChunksOf(s, cycleCount + 1) # {}]_vars

\* two cycles were decayed, and in the second one specialist failed while the
\* other created its chunk
C1_Witness ==
    /\ decayCalls = 2
    /\ \E s \in DOMAIN task : task[s].createFailed
    /\ \E s \in DOMAIN task : ~task[s].createFailed /\ task[s].st = "settled"

\* a specialist task becomes pending, or the fan-out phase is entered
FanOutStarts ==
    \/ pc # "fanout" /\ pc' = "fanout"
    \/ \E s \in DOMAIN task' :
          /\ task'[s].st = "text"
          /\ s \in DOMAIN task => task[s].st # "text"

\* C2: cycles run strictly one after the other: when the fan-out of a cycle
\* starts, every earlier cycle has had its decay and cluster check, no
\* broadcast synthesis is in flight and no specialist task is pending.
C2_CyclesSequential ==
    [][FanOutStarts =>
          /\ pc = "loop"
          /\ decayCalls = cycleCount
          /\ \A s \in DOMAIN task : task[s].st \notin PendingStates]_vars

\* the second cycle's fan-out is running after a first cycle that broadcast
C2_Witness ==
    /\ pc = "fanout"
    /\ cycleCount = 1
    /\ Len(broadcasts) = 1
    /\ \E s \in DOMAIN task : task[s].st = "text"

\* C3: once the specialists are defined, start returns, and the result's
\* cyclesExecuted is maxCycles, whatever calls fail.
C3_RunCompletes ==
    (pc = "loop") ~>
        (pc = "completed" /\ result.returned /\ result.cyclesExecuted = config.maxCycles)

\* a run of two cycles returned although a specialist's createChunk failed
C3_Witness ==
    /\ pc = "completed"
    /\ result.cyclesExecuted = 2
    /\ \E s \in DOMAIN task : task[s].createFailed

\* analysis outputs that are no list of valid definitions
UnparseableTexts ==
    {MetaErrorText, "", "I think three experts are needed.", "{}", "[short]"}

MetaChunks == {i \in ChunkIndexes : chunks[i].sourceAgentId = MetaAgentId}

\* nothing of a cycle has happened
NoCycleRan ==
    /\ cycleCount = 0
    /\ decayCalls = 0
    /\ ~result.returned
    /\ activeChunks = <<>>
    /\ \A s \in DOMAIN task : task[s].st = "none"
    /\ \A i \in ChunkIndexes : chunks[i].sourceAgentId \in {"user", MetaAgentId}

\* C4: when the analysis output cannot be parsed into specialist definitions
\* (the failed analysis generation included), start rejects before any
\* cycle: no specialist is invoked, no decay, no result.
C4_UnparseableIsFatal ==
    \A i \in MetaChunks :
        chunks[i].content \in UnparseableTexts => pc = "rejected" /\ NoCycleRan

\* the analysis generation itself failed and the run was rejected
C4_Witness ==
    /\ pc = "rejected"
    /\ \E i \in MetaChunks : chunks[i].content = MetaErrorText

\* C5: an analysis output that parses to the empty list is fatal like a null
\* parse result: start rejects and no cycle runs.
C5_EmptyListIsFatal ==
    \A i \in MetaChunks :
        chunks[i].content = "[]" => pc = "rejected" /\ NoCycleRan

\* C6: start rejects only out of specialist definition: a rejected run has
\* run no cycle.
C6_OnlyDefinitionAborts == pc = "rejected" => NoCycleRan

\* a run returned although a broadcast synthesis failed
C6_Witness ==
    /\ pc = "completed"
    /\ \E i \in 1..Len(result.broadcasts) : result.broadcasts[i] = BroadcastErrorText

\* C7: a specialist whose text generation failed in the cycle under way has
\* added no chunk in it.
C7_FailedGenerationAddsNothing ==
    pc = "fanout" =>
        \A s \in DOMAIN task :
            task[s].generationFailed => ChunksOf(s, cycleCount + 1) = {}

\* C8: during a cycle every specialist whose own sequence succeeded has added
\* exactly one chunk, whatever became of the others.
C8_SuccessfulSpecialistAddsOne ==
    pc = "fanout" =>
        \A s \in DOMAIN task :
            (task[s].st = "settled" /\ ~task[s].generationFailed /\ ~task[s].createFailed)
                => Cardinality(ChunksOf(s, cycleCount + 1)) = 1

\* all tasks of a cycle are over: one failed, another one added its chunk
C8_Witness ==
    /\ pc = "fanout"
    /\ \A s \in DOMAIN task : task[s].st = "settled"
    /\ \E s \in DOMAIN task : task[s].createFailed
    /\ \E s \in DOMAIN task : ~task[s].createFailed /\ ChunksOf(s, cycleCount + 1) # {}

\* the parents, out of parentIds, that are in the workspace with an embedding
EmbeddedParents(parentIds) ==
    SelectSeq(parentIds,
              LAMBDA id : HasChunk(chunks, id) /\ getChunk(chunks, id).contentVector # NoVector)

\* sum over ids[i..] of similarity times the parent's energy
RECURSIVE WeightedSimilarity(_, _, _)
WeightedSimilarity(contentVector, ids, i) ==
    IF i > Len(ids) THEN R(0)
    ELSE RAdd[RMul[cosineSimilarity(contentVector, getChunk(chunks, ids[i]).contentVector).val,
                   getChunk(chunks, ids[i]).activationEnergy],
              WeightedSimilarity(contentVector, ids, i + 1)]

\* base energy plus the resonance the embedded parents alone give
EnergyFromEmbeddedParents(contentVector, parentIds) ==
    LET Energy(embedded) ==
            IF contentVector = NoVector \/ embedded = <<>>
            THEN config.baseActivationEnergy
            ELSE RAdd[config.baseActivationEnergy,
                      RMul[RDivInt[WeightedSimilarity(contentVector, embedded, 1),
                                   Len(embedded)],
                           config.maxResonanceFactor]]
    IN  Call(Energy, EmbeddedParents(parentIds))

\* a specialist's task ends by adding a chunk
SpecialistAdds(s) ==
    /\ pc = "fanout"
    /\ s \in DOMAIN task
    /\ task[s].st = "embedding"
    /\ Len(chunks') = Len(chunks) + 1
    /\ chunks'[Len(chunks')].sourceAgentId = s

\* C9: when the embedding call for a specialist's text fails, the chunk is
\* created all the same, without embedding and with exactly
\* baseActivationEnergy; and the energy of every chunk a specialist adds is
\* the base plus the resonance of the parents that carry an embedding alone,
\* averaged over their number: a parent without embedding adds nothing to
\* the sum and is not counted.
C9_NoEmbeddingNoResonance ==
    [][\A s \in DOMAIN task :
          /\ EmbedReturn(s, Thrown) =>
                /\ SpecialistAdds(s)
                /\ chunks'[Len(chunks')].contentVector = NoVector
                /\ chunks'[Len(chunks')].activationEnergy = config.baseActivationEnergy
          /\ SpecialistAdds(s) =>
                chunks'[Len(chunks')].activationEnergy =
                    EnergyFromEmbeddedParents(chunks'[Len(chunks')].contentVector,
                                              chunks'[Len(chunks')].parentIds)]_vars

\* a chunk with an embedding has, among its parents, a specialist's chunk
\* without embedding and a chunk with an embedding that resonates
C9_Witness ==
    \E c \in ChunkIndexes :
        /\ chunks[c].contentVector # NoVector
        /\ chunks[c].sourceAgentId \in SpecialistIdSet
        /\ RLess[config.baseActivationEnergy, chunks[c].activationEnergy]
        /\ \E p \in ChunkIndexes :
              /\ Includes(chunks[c].parentIds, chunks[p].id)
              /\ chunks[p].sourceAgentId \in SpecialistIdSet
              /\ chunks[p].contentVector = NoVector
        /\ \E q \in ChunkIndexes :
              /\ Includes(chunks[c].parentIds, chunks[q].id)
              /\ chunks[q].contentVector # NoVector

-----------------------------------------------------------------------------
(* Properties of the workspace *)

\* chunk j comes before chunk i when sorted by descending energy
Ahead(j, i) ==
    \/ RLess[chunks[i].activationEnergy, chunks[j].activationEnergy]
    \/ chunks[i].activationEnergy = chunks[j].activationEnergy /\ j < i

\* the 30 most active chunks (all of them when there are fewer)
Candidates == {i \in ChunkIndexes : Cardinality({j \in ChunkIndexes : Ahead(j, i)}) < 30}

\* parent and child, one way or the other
Linked(i, j) ==
    \/ Includes(chunks[i].parentIds, chunks[j].id)
    \/ Includes(chunks[j].parentIds, chunks[i].id)

\* the chunks of S that are connected to X inside S
RECURSIVE Connected(_, _)
Connected(S, X) ==
    Call(LAMBDA Y : IF Y = X THEN X ELSE Connected(S, Y),
         X \cup {j \in S : \E i \in X : Linked(i, j)})

\* summed energy of the chunks i.. that are in S
RECURSIVE EnergyOver(_, _)
EnergyOver(S, i) ==
    IF i > Len(chunks) THEN R(0)
    ELSE IF i \in S THEN RAdd[chunks[i].activationEnergy, EnergyOver(S, i + 1)]
    ELSE EnergyOver(S, i + 1)

\* summed energy of the connected component of chunk i inside S
ComponentEnergy(S, i) ==
    Call(LAMBDA component : EnergyOver(component, 1), Connected(S, {i}))

ClusterIndexes == {i \in ChunkIndexes : Includes(cluster, chunks[i].id)}

\* C10: findHighEnergyCluster answers the empty list or chunks of the
\* workspace whose energies sum to activationThreshold or more; and it
\* answers the empty list when no connected component of the 30 most active
\* chunks reaches the threshold, whatever the chunks outside the 30 would add.
C10_ClusterReachesThreshold ==
    pc = "found" =>
        \E candidates \in {Candidates} :
            /\ cluster # <<>> =>
                  /\ Cardinality(ClusterIndexes) = Len(cluster)
                  /\ RLeq[config.activationThreshold, EnergyOver(ClusterIndexes, 1)]
            /\ (\A i \in candidates :
                    RLess[ComponentEnergy(candidates, i), config.activationThreshold])
                  => cluster = <<>>

\* the answer is empty although a candidate's component in the whole
\* workspace reaches the threshold: a part of it is outside the 30
C10_Witness ==
    /\ pc = "found"
    /\ cluster = <<>>
    /\ Len(chunks) > 30
    /\ \E i \in Candidates :
          RLeq[config.activationThreshold, ComponentEnergy(ChunkIndexes, i)]

\* C11: a non-empty answer of findHighEnergyCluster is exactly one connected
\* component of the graph over the 30 most active chunks, where two of them
\* are joined when one names the other in its parentIds (a parent id outside
\* the 30 joins nothing), and no component of that graph has a strictly
\* higher total energy.
C11_ClusterIsBestComponent ==
    (pc = "found" /\ cluster # <<>>) =>
        \E candidates \in {Candidates} : \E members \in {ClusterIndexes} :
            /\ Cardinality(members) = Len(cluster)
            /\ \E i \in candidates : members = Connected(candidates, {i})
            /\ \A j \in candidates :
                  RLeq[ComponentEnergy(candidates, j), EnergyOver(members, 1)]

\* the answer is a lineage chain of three chunks, the first of which names a
\* parent that is in the workspace but not among the 30 most active chunks
C11_Witness ==
    /\ pc = "found"
    /\ Len(cluster) = 3
    /\ \E a, b, c \in ClusterIndexes :
          /\ Includes(chunks[b].parentIds, chunks[a].id)
          /\ Includes(chunks[c].parentIds, chunks[b].id)
          /\ \E p \in ChunkIndexes \ Candidates : Includes(chunks[a].parentIds, chunks[p].id)

\* list is an answer to getMostActiveChunks(n) on the chunks as they are;
\* at holds, for each place of the list, the place of that chunk in the workspace
MostActiveListed(list, n) ==
    /\ Len(list) = Min(n, Len(chunks))
    /\ \A k \in 1..Len(list) : HasChunk(chunks, list[k])
    /\ \E at \in {[k \in 1..Len(list) |-> IndexOfId(chunks, list[k])]} :
          /\ \A k, l \in 1..Len(list) :
                k < l =>
                    /\ at[k] # at[l]
                    /\ ~RLess[chunks[at[k]].activationEnergy, chunks[at[l]].activationEnergy]
                    /\ chunks[at[k]].activationEnergy = chunks[at[l]].activationEnergy
                          => at[k] < at[l]
          /\ \A i \in ChunkIndexes \ {at[k] : k \in 1..Len(list)} :
                \A k \in 1..Len(list) :
                    ~RLess[chunks[at[k]].activationEnergy, chunks[i].activationEnergy]

\* C12: for every limit n >= 0, getMostActiveChunks(n) answers min(n, number
\* of chunks) distinct chunks of the workspace in non-increasing order of
\* activationEnergy; no chunk left out has a strictly higher energy than one
\* in the answer, and chunks of equal energy are in insertion order.
C12_MostActiveChunks ==
    [][\A n \in Limits :
          (pc' = "listed" /\ RsGetMostActiveChunks(n))
              => MostActiveListed(activeChunks', n)]_vars

\* two chunks of the same energy were listed out of three; the chunk put in
\* first has less energy and is left out
C12_Witness ==
    /\ pc = "listed"
    /\ Len(activeChunks) = 2
    /\ Len(chunks) = 3
    /\ getChunk(chunks, activeChunks[1]).activationEnergy
          = getChunk(chunks, activeChunks[2]).activationEnergy
    /\ ~Includes(activeChunks, chunks[1].id)
    /\ RLess[chunks[1].activationEnergy, getChunk(chunks, activeChunks[1]).activationEnergy]

\* the chunk a createChunk step has put in
Created == chunks'[Len(chunks')]

\* C13: createChunk gives the new chunk exactly baseActivationEnergy when the
\* chunk has no embedding, or no parentIds, or when none of its parentIds
\* names a chunk that is in the workspace and has an embedding.
C13_BaseEnergyWithoutResonance ==
    [][\A contentVector \in CreatedVectors, parentIds \in RsParentChoices :
          (/\ Len(chunks') > Len(chunks)
           /\ RsCreateChunk(contentVector, parentIds)
           /\ \/ contentVector = NoVector
              \/ parentIds = <<>>
              \/ EmbeddedParents(parentIds) = <<>>)
              => Created.activationEnergy = config.baseActivationEnergy]_vars

\* a chunk with an embedding was created with parentIds naming a chunk
\* without embedding and the id of no chunk, and has the base energy
C13_Witness ==
    \E c \in ChunkIndexes :
        /\ chunks[c].sourceAgentId = "agent"
        /\ chunks[c].contentVector # NoVector
        /\ chunks[c].activationEnergy = config.baseActivationEnergy
        /\ Includes(chunks[c].parentIds, 0)
        /\ \E p \in 1..(c - 1) :
              /\ Includes(chunks[c].parentIds, chunks[p].id)
              /\ chunks[p].contentVector = NoVector

\* C14: a chunk created with an embedding and at least one parent that has an
\* embedding gets baseActivationEnergy + maxResonanceFactor * (sum, over the
\* parents with an embedding, of cosine(new, parent) * the parent's energy
\* at that time) / (number of parents with an embedding); a parent without
\* embedding or not in the workspace is in neither the sum nor the divisor.
C14_ResonanceFormula ==
    [][\A contentVector \in CreatedVectors, parentIds \in RsParentChoices :
          (/\ Len(chunks') > Len(chunks)
           /\ RsCreateChunk(contentVector, parentIds)
           /\ contentVector # NoVector
           /\ EmbeddedParents(parentIds) # <<>>)
              => Created.activationEnergy
                    = RAdd[config.baseActivationEnergy,
                           RMul[RDivInt[WeightedSimilarity(contentVector,
                                                           EmbeddedParents(parentIds), 1),
                                        Len(EmbeddedParents(parentIds))],
                                config.maxResonanceFactor]]]_vars

\* parents [1,0] of energy 4 and [0,1] of energy 2, and the id of no chunk;
\* the new chunk [1,0] has the base energy plus 4 (maxResonanceFactor is 2)
C14_Witness ==
    /\ Len(chunks) = 3
    /\ config.maxResonanceFactor = R(2)
    /\ chunks[1].contentVector = <<1, 0>> /\ chunks[1].activationEnergy = R(4)
    /\ chunks[2].contentVector = <<0, 1>> /\ chunks[2].activationEnergy = R(2)
    /\ chunks[3].contentVector = <<1, 0>>
    /\ chunks[3].parentIds = <<chunks[1].id, chunks[2].id, 0>>
    /\ chunks[3].activationEnergy = RAdd[config.baseActivationEnergy, R(4)]

\* the configuration is in the stated ranges
ConfigInRange ==
    /\ RLess[R(0), config.decayRate] /\ RLeq[config.decayRate, R(1)]
    /\ RLeq[R(0), config.baseActivationEnergy]
    /\ RLeq[R(0), config.maxResonanceFactor]

\* C15: with a decay rate in (0,1], decayActivations never increases the
\* activationEnergy of a chunk, and with the rate 1 it leaves it as it was.
C15_DecayNeverIncreases ==
    [][(decayCalls' # decayCalls /\ ConfigInRange) =>
          \A i \in ChunkIndexes :
              /\ RLeq[chunks'[i].activationEnergy, chunks[i].activationEnergy]
              /\ config.decayRate = R(1)
                    => chunks'[i].activationEnergy = chunks[i].activationEnergy]_vars

\* C16: with the configuration in the stated ranges, every chunk's
\* activationEnergy is non-negative in every state of a run, whatever the
\* embeddings are.
C16_EnergyNonNegative ==
    ConfigInRange => \A i \in ChunkIndexes : RLeq[R(0), chunks[i].activationEnergy]

\* C17: during a run a chunk that is in the workspace stays in it, and no
\* step changes any of its fields other than activationEnergy.
C17_ChunksPersist ==
    [][\A i \in ChunkIndexes :
          /\ i <= Len(chunks')
          /\ [chunks'[i] EXCEPT !.activationEnergy = chunks[i].activationEnergy]
                = chunks[i]]_vars

\* a run of two cycles returned; the user chunk has decayed twice and a
\* broadcast chunk was added after it
C17_Witness ==
    /\ pc = "completed"
    /\ decayCalls = 2
    /\ chunks[1].sourceAgentId = "user"
    /\ RLess[chunks[1].activationEnergy, R(UserChunkEnergy)]
    /\ \E i \in ChunkIndexes : chunks[i].sourceAgentId = "broadcast"

\* the chunks named as parents by the chunks of S
ParentsOf(S) ==
    {j \in ChunkIndexes : \E i \in S : Includes(chunks[i].parentIds, chunks[j].id)}

\* S with everything reached from it by the parent relation
RECURSIVE AncestorsFrom(_)
AncestorsFrom(S) ==
    Call(LAMBDA T : IF T = S THEN S ELSE AncestorsFrom(T), S \cup ParentsOf(S))

Ancestors(i) == AncestorsFrom(ParentsOf({i}))

\* C18: each id in the parentIds of a chunk created during a run names a
\* chunk that was in the workspace before it; the parent relation has no
\* cycle, no chunk is its own ancestor.
C18_ParentsAreEarlier ==
    /\ [](\A i \in ChunkIndexes : i \notin Ancestors(i))
    /\ [][\A i \in (Len(chunks) + 1)..Len(chunks') :
             \A k \in 1..Len(chunks'[i].parentIds) :
                 HasChunk(chunks, chunks'[i].parentIds[k])]_vars

\* a broadcast chunk descends from the user chunk over a specialist's chunk
\* and the analysis chunk
C18_Witness ==
    \E b \in ChunkIndexes :
        /\ chunks[b].sourceAgentId = "broadcast"
        /\ \E s \in ParentsOf({b}) :
              /\ chunks[s].sourceAgentId \in SpecialistIdSet
              /\ \E m \in ParentsOf({s}) :
                    /\ chunks[m].sourceAgentId = MetaAgentId
                    /\ 1 \in ParentsOf({m})

\* a cycle in which findHighEnergyCluster answered a cluster is in its
\* broadcast phase
ClusterFound == pc \in {"synthesizing", "embeddingSynthesis"}

\* C19: a cycle appends one entry to broadcasts if and only if
\* findHighEnergyCluster answered a non-empty cluster in it, whatever text
\* the synthesis call returns; nothing else touches the list.
C19_BroadcastPerCluster ==
    [][IF cycleCount' = cycleCount + 1 /\ ClusterFound
       THEN broadcasts' # broadcasts /\ SubSeq(broadcasts', 1, Len(broadcasts') - 1) = broadcasts
       ELSE pc # "constructed" => broadcasts' = broadcasts]_vars

\* C20: in the result of a completed run, finalBroadcast is the last element
\* of broadcasts, and the empty string when there was no broadcast.
C20_FinalIsLastBroadcast ==
    result.returned =>
        result.finalBroadcast =
            IF result.broadcasts = <<>> THEN ""
            ELSE result.broadcasts[Len(result.broadcasts)]

\* a run returned two broadcasts that differ
C20_Witness ==
    /\ result.returned
    /\ Len(result.broadcasts) = 2
    /\ result.broadcasts[1] # result.broadcasts[2]

-----------------------------------------------------------------------------
(* Properties of the broadcast phase *)

\* C21: when the synthesis generation fails, processBroadcast does not
\* raise: the step ends the cycle with the text "Error during broadcast
\* synthesis" as its broadcast, appended to broadcasts and kept as the final
\* one, no chunk is added, and the loop goes on.
C21_SynthesisFailureYieldsSentinel ==
    [][(pc = "synthesizing" /\ pc' # "embeddingSynthesis") =>
          /\ pc' = "loop"
          /\ cycleCount' = cycleCount + 1
          /\ broadcasts' = Append(broadcasts, BroadcastErrorText)
          /\ finalBroadcast' = BroadcastErrorText
          /\ chunks' = chunks]_vars

\* a cycle is under way after a cycle whose synthesis failed: the sentinel is
\* the one broadcast so far and no chunk has the source "broadcast"
C21_Witness ==
    /\ pc = "fanout"
    /\ cycleCount = 1
    /\ broadcasts = <<BroadcastErrorText>>
    /\ \A i \in ChunkIndexes : chunks[i].sourceAgentId # "broadcast"

\* C22: when processBroadcast succeeds (it does not answer the error text),
\* the step that ends it adds exactly one chunk: its source is "broadcast", its
\* content the synthesis, its parentIds the ids of the cluster, its energy
\* the energy createChunk gives (base plus resonance) plus 5; the chunks
\* already there are untouched, and the chunk is not decayed before the next
\* cycle reads the workspace.
C22_BroadcastChunk ==
    [][/\ (pc = "embeddingSynthesis" /\ pc' = "loop") =>
             IF broadcasts' = Append(broadcasts, BroadcastErrorText)
             THEN chunks' = chunks
             ELSE /\ Len(chunks') = Len(chunks) + 1
                  /\ SubSeq(chunks', 1, Len(chunks)) = chunks
                  /\ Created.sourceAgentId = "broadcast"
                  /\ Created.content = synthesis
                  /\ Created.parentIds = cluster
                  /\ Created.activationEnergy =
                         RAdd[EnergyFromEmbeddedParents(Created.contentVector, cluster),
                              R(BroadcastBoost)]
       /\ pc = "loop" => chunks' = chunks]_vars

\* a cycle has read the broadcast chunk of the cycle before it, which has
\* the energy it was created with: the base and the boost
C22_Witness ==
    /\ pc = "fanout"
    /\ \E i \in ChunkIndexes :
          /\ chunks[i].sourceAgentId = "broadcast"
          /\ chunks[i].createdAt = cycleCount
          /\ chunks[i].parentIds # <<>>
          /\ activeChunks[1] = chunks[i].id
          /\ chunks[i].activationEnergy =
                 RAdd[config.baseActivationEnergy, R(BroadcastBoost)]

\* summed energy of the chunks that cluster names
ClusterEnergy == EnergyOver(ClusterIndexes, 1)

\* C28: the orchestrator's broadcastThreshold governs the broadcasts: a cycle
\* goes on to processBroadcast only with a cluster whose summed energy is
\* broadcastThreshold or more.
C28_BroadcastThresholdGoverns ==
    [][(pc = "fanout" /\ pc' = "synthesizing") =>
          RLeq[config.broadcastThreshold, ClusterEnergy']]_vars

-----------------------------------------------------------------------------
(* Properties of a sequence of runs on one instance *)

\* the user chunk and the analysis chunk of the run started last
RunUserChunk == CHOOSE i \in UserChunks : \A j \in UserChunks : j <= i
RunMetaChunk == CHOOSE i \in MetaChunks : \A j \in MetaChunks : j <= i

\* C23: in the first cycle of every run on an instance, the run's user chunk
\* is in the snapshot handed to the specialists, and so among the parentIds
\* of every chunk a specialist creates in that cycle.
C23_UserChunkInFirstSnapshot ==
    /\ (pc = "fanout" /\ cycleCount = 0) =>
           Includes(activeChunks, chunks[RunUserChunk].id)
    /\ pc \in {"loop", "fanout", "synthesizing", "embeddingSynthesis", "completed"} =>
           \A c \in ChunkIndexes :
               (/\ c > RunUserChunk
                /\ chunks[c].sourceAgentId \in SpecialistIdSet
                /\ chunks[c].createdAt = 1) =>
                   Includes(chunks[c].parentIds, chunks[RunUserChunk].id)

\* C24: the result of every completed run of a sequence gives, as
\* totalAgents, the number of definitions parsed from that run's analysis
\* answer plus one.
C24_TotalAgentsOfTheRun ==
    result.returned =>
        result.totalAgents = Len(safeParse(chunks[RunMetaChunk].content).data) + 1

\* C25: every chunk of the workspace, during and after a run, has the source
\* "user", "broadcast" or the id of a specialist of the roster, and a run
\* that has started has exactly one chunk of source "user".
C25_ChunkSources ==
    /\ \A i \in ChunkIndexes :
           chunks[i].sourceAgentId \in {"user", "broadcast"} \cup SpecialistIdSet
    /\ pc # "constructed" => Cardinality(UserChunks) = 1

-----------------------------------------------------------------------------
(* Properties of the fan-out *)

\* chunks i and j were created by specialists in the same cycle
Siblings(i, j) ==
    /\ i # j
    /\ chunks[i].sourceAgentId \in SpecialistIdSet
    /\ chunks[j].sourceAgentId \in SpecialistIdSet
    /\ chunks[i].createdAt = chunks[j].createdAt

\* C29: a cycle reads the ten most active chunks once, before it starts the
\* specialists' tasks, and the list stays what it is during the fan-out;
\* every chunk added during the fan-out has a specialist of the roster as
\* its source, the one whose task ends, and the ids of that list as its
\* parentIds.  So no chunk has more than ten parentIds, and no chunk of a
\* specialist has a chunk that a specialist created in the same cycle among
\* its parents.
C29_SameSnapshotForAll ==
    /\ [](\A c \in ChunkIndexes :
             chunks[c].sourceAgentId \in SpecialistIdSet =>
                 /\ Len(chunks[c].parentIds) <= 10
                 /\ \A p \in ChunkIndexes :
                       Includes(chunks[c].parentIds, chunks[p].id) => ~Siblings(c, p))
    /\ [][/\ (pc = "loop" /\ pc' = "fanout") => MostActiveListed(activeChunks', 10)
          /\ pc = "fanout" => activeChunks' = activeChunks
          /\ (pc = "fanout" /\ Len(chunks') # Len(chunks)) =>
                \E s \in DOMAIN task :
                    /\ SpecialistAdds(s)
                    /\ task'[s].st = "settled"
                    /\ Created.parentIds = activeChunks]_vars

\* two specialists have created their chunks in the second cycle: both name
\* the same ten parents, fewer than the workspace held, among them a chunk a
\* specialist created in the first cycle
C29_Witness ==
    \E c, d \in ChunkIndexes :
        /\ Siblings(c, d)
        /\ chunks[c].createdAt = 2
        /\ chunks[c].sourceAgentId # chunks[d].sourceAgentId
        /\ chunks[c].parentIds = chunks[d].parentIds
        /\ Len(chunks[c].parentIds) = 10
        /\ c > 11 /\ d > 11
        /\ \E p \in ChunkIndexes :
              /\ Includes(chunks[c].parentIds, chunks[p].id)
              /\ chunks[p].sourceAgentId \in SpecialistIdSet
              /\ chunks[p].createdAt = 1

\* the chunks the specialists have created in the cycle under way
CycleChunks ==
    {i \in ChunkIndexes : /\ chunks[i].sourceAgentId \in SpecialistIdSet
                          /\ chunks[i].createdAt = cycleCount + 1}

\* C30: whatever the order in which the specialists' tasks of a cycle end,
\* the energy of a chunk a specialist created in the cycle is the base plus
\* the resonance of its embedding with the list the cycle read, whichever
\* other tasks have ended before it; the steps of the fan-out leave every
\* chunk already there as it is, and the step that ends the fan-out gives
\* every chunk its energy times decayRate.
C30_OrderIndependent ==
    /\ [](pc = "fanout" =>
             \A c \in CycleChunks :
                 chunks[c].activationEnergy =
                     EnergyFromEmbeddedParents(chunks[c].contentVector, activeChunks))
    /\ [][pc = "fanout" =>
             IF pc' = "fanout"
             THEN SubSeq(chunks', 1, Len(chunks)) = chunks
             ELSE /\ Len(chunks') = Len(chunks)
                  /\ \A i \in ChunkIndexes :
                        chunks'[i] = [chunks[i] EXCEPT !.activationEnergy =
                                         RMul[chunks[i].activationEnergy,
                                              config.decayRate]]]_vars

\* in the second cycle the specialist created second has ended its task
\* first; both chunks of the cycle resonate with the list the cycle read
C30_Witness ==
    /\ pc = "fanout"
    /\ cycleCount = 1
    /\ \E c, d \in CycleChunks :
          /\ c < d
          /\ chunks[c].sourceAgentId = specialists[2].id
          /\ chunks[d].sourceAgentId = specialists[1].id
          /\ RLess[config.baseActivationEnergy, chunks[c].activationEnergy]
          /\ RLess[config.baseActivationEnergy, chunks[d].activationEnergy]

-----------------------------------------------------------------------------
(* Properties of processWithStreaming *)

\* C26: whatever the listeners of "broadcast" and "cycleCompleted" do, a run
\* through processWithStreaming is a run of process: every step of it
\* changes the run's variables as a step of process does.
C26_StreamingRunsAsProcess ==
    [][\/ \E p \in UserPrompts : Start(p)
       \/ \E o \in MetaOutcomes : DefineSpecialists(o)
       \/ CycleStart
       \/ \E s \in SpecialistIdSet, o \in SpecialistTextOutcomes : TextReturn(s, o)
       \/ \E s \in SpecialistIdSet :
             \E o \in EmbeddingOutcomes(task[s].thought) : EmbedReturn(s, o)
       \/ DecayAndCheck
       \/ \E o \in SynthesisTextOutcomes : SynthesisReturn(o)
       \/ \E o \in EmbeddingOutcomes(synthesis) : SynthesisEmbedReturn(o)
       \/ Complete]_runVars

\* C27: "cycleCompleted" with the number n is emitted only when n cycles have
\* completed, and a "broadcast" emitted during cycle n comes before the
\* "cycleCompleted" with the number n.
C27_CycleCompletedAfterCycle ==
    /\ \A k \in 1..Len(emitted) :
           emitted[k].event = "cycleCompleted" => emitted[k].value <= cycleCount
    /\ \A j, k \in 1..Len(emitted) :
           (/\ emitted[j].event = "broadcast"
            /\ emitted[k].event = "cycleCompleted"
            /\ emitted[k].value = emitted[j].cycle) => j < k

-----------------------------------------------------------------------------
(* Decay over the cycles of a run *)

RECURSIVE Pow(_, _)
Pow(r, k) == IF k = 0 THEN R(1) ELSE RMul[r, Pow(r, k - 1)]

\* the decayActivations calls a chunk has been in the workspace for: a
\* specialist's chunk is there for the call of the cycle that created it, a
\* broadcast chunk is created after the call of its cycle
DecaysLivedThrough(i) ==
    IF chunks[i].sourceAgentId \in SpecialistIdSet THEN decayCalls - (chunks[i].createdAt - 1)
    ELSE IF chunks[i].sourceAgentId = "broadcast" THEN decayCalls - chunks[i].createdAt
    ELSE decayCalls

\* the chunks whose energy at insertion is known from their fields alone: the
\* user chunk, the analysis chunk, and the chunks created without embedding
KnownInitialEnergy(i) ==
    IF chunks[i].sourceAgentId = "user" THEN R(UserChunkEnergy)
    ELSE IF chunks[i].sourceAgentId = MetaAgentId THEN R(MetaChunkEnergy)
    ELSE IF chunks[i].sourceAgentId = "broadcast"
         THEN RAdd[config.baseActivationEnergy, R(BroadcastBoost)]
    ELSE config.baseActivationEnergy

\* C31: decayActivations is called once in each cycle: during the fan-out of
\* a cycle it has been called once for each cycle before, and once more when
\* the cycle goes on to its broadcast; the call gives every chunk of the
\* workspace, those created in the cycle included, its energy times
\* decayRate; and a chunk that entered without resonance has its energy at
\* insertion times decayRate to the number of calls it has been there for.
C31_DecayOncePerCycle ==
    /\ [](/\ pc \in {"loop", "fanout", "completed"} => decayCalls = cycleCount
          /\ pc \in {"synthesizing", "embeddingSynthesis"} => decayCalls = cycleCount + 1
          /\ \A i \in ChunkIndexes :
                chunks[i].contentVector = NoVector =>
                    chunks[i].activationEnergy =
                        RMul[KnownInitialEnergy(i),
                             Pow(config.decayRate, DecaysLivedThrough(i))])
    /\ [][decayCalls' # decayCalls =>
             /\ decayCalls' = decayCalls + 1
             /\ \A i \in ChunkIndexes :
                   chunks'[i].activationEnergy =
                       RMul[chunks[i].activationEnergy, config.decayRate]]_vars

\* after two cycles the user chunk has 5 times decayRate squared, a chunk a
\* specialist created without embedding in the second cycle has the base
\* times decayRate, and one created in the first has decayed twice
C31_Witness ==
    /\ pc = "completed"
    /\ decayCalls = 2
    /\ chunks[1].activationEnergy = RMul[R(UserChunkEnergy), Pow(config.decayRate, 2)]
    /\ \E i, j \in ChunkIndexes :
          /\ chunks[i].sourceAgentId \in SpecialistIdSet
          /\ chunks[j].sourceAgentId \in SpecialistIdSet
          /\ chunks[i].createdAt = 1
          /\ chunks[j].createdAt = 2
          /\ chunks[j].contentVector = NoVector
          /\ chunks[j].activationEnergy = RMul[config.baseActivationEnergy, config.decayRate]

-----------------------------------------------------------------------------
(* The roster of a run *)

\* C32: the roster changes in one step of a run only, the one that ends
\* defineSpecialists: that step appends one specialist for each parsed
\* definition, in order, and keeps those already there; the ids of the
\* roster are pairwise distinct; hence from the first cycle to the return
\* of the run the set of specialist ids is the same.
C32_RosterFixedInCycles ==
    /\ [](\A i, j \in 1..Len(specialists) :
             specialists[i].id = specialists[j].id => i = j)
    /\ [][IF pc = "defining" /\ pc' = "loop"
          THEN LET defs == safeParse(chunks'[Len(chunks')].content).data
               IN  /\ Len(specialists') = Len(specialists) + Len(defs)
                   /\ SubSeq(specialists', 1, Len(specialists)) = specialists
                   /\ \A i \in 1..Len(defs) :
                         /\ specialists'[Len(specialists) + i].role = defs[i].role
                         /\ specialists'[Len(specialists) + i].id \notin SpecialistIdSet
          ELSE specialists' = specialists]_vars

\* a run of two cycles over a roster of two specialists has returned
C32_Witness ==
    /\ pc = "completed"
    /\ result.cyclesExecuted = 2
    /\ Len(specialists) = 2
    /\ specialists[1].id # specialists[2].id

-----------------------------------------------------------------------------
(* The list a cycle reads *)

\* C33: every cycle of a run reads a list that is not empty: the loop never
\* takes the early return of runCognitiveCycle, each of its cycles goes to
\* the fan-out with a list that holds the user chunk or chunks above it,
\* and a run that returns has called decayActivations and the cluster check
\* in each of its maxCycles cycles.
C33_ActiveListNeverEmpty ==
    /\ [](/\ pc \in {"fanout", "synthesizing", "embeddingSynthesis"} =>
                /\ Len(activeChunks) > 0
                /\ Len(getMostActiveChunks(chunks, ActiveLimit)) > 0
          /\ pc = "completed" =>
                /\ result.cyclesExecuted = config.maxCycles
                /\ decayCalls = config.maxCycles)
    /\ [][pc = "loop" /\ pc' # "completed" =>
             /\ pc' = "fanout"
             /\ cycleCount' = cycleCount
             /\ activeChunks' = Ids(getMostActiveChunks(chunks, ActiveLimit))
             /\ activeChunks' # <<>>]_vars

\* a run of two cycles has returned after two decays; its roster was empty,
\* so the only chunks a cycle could read were the user and analysis chunks
C33_Witness ==
    /\ pc = "completed"
    /\ config.maxCycles = 2
    /\ decayCalls = 2
    /\ Len(specialists) = 0
    /\ Len(chunks) = 2

-----------------------------------------------------------------------------
(* createChunk with an embedding of another length than a parent's *)

\* the embeddings a task may hand to createChunk
TaskVectors == {Embedding(SpecialistText), Embedding(SpecialistErrorText),
                WrongDimensionVector}

\* one of parentIds names a chunk of the workspace whose embedding has
\* another length than contentVector
LengthMismatch(contentVector, parentIds) ==
    \E k \in 1..Len(parentIds) :
        /\ HasChunk(chunks, parentIds[k])
        /\ getChunk(chunks, parentIds[k]).contentVector # NoVector
        /\ Len(getChunk(chunks, parentIds[k]).contentVector) # Len(contentVector)

\* C37: createChunk given an embedding whose length differs from the
\* embedding of one of the parents throws; and a task of a cycle whose
\* createChunk is given such an embedding ends as failed while the chunks,
\* their energies, the other tasks and the cycle stay as they were.
C37_MismatchLeavesWorkspace ==
    /\ [](\A v \in TaskVectors :
             LengthMismatch(v, activeChunks) =>
                 ~createChunk(chunks, config, SpecialistText, v, AgentIds[1],
                              activeChunks, nextId, cycleCount + 1).ok)
    /\ [][\A s \in DOMAIN task, v \in TaskVectors :
             (EmbedReturn(s, Returned(v)) /\ LengthMismatch(v, activeChunks)) =>
                 /\ chunks' = chunks
                 /\ nextId' = nextId
                 /\ task'[s].st = "settled" /\ task'[s].createFailed
                 /\ \A t \in DOMAIN task \ {s} : task'[t] = task[t]
                 /\ pc' = "fanout"
                 /\ cycleCount' = cycleCount]_vars

\* in the second cycle a task has failed on an embedding of length 1 while
\* a chunk of the first cycle, with an embedding of length 2, is in the list
\* the cycle read; the workspace holds no chunk of that task for the cycle
C37_Witness ==
    /\ pc = "fanout"
    /\ cycleCount = 1
    /\ LengthMismatch(WrongDimensionVector, activeChunks)
    /\ \E s \in DOMAIN task :
          /\ task[s].createFailed
          /\ ChunksOf(s, cycleCount + 1) = {}

-----------------------------------------------------------------------------
(* The read operations *)

\* C39: a step of the workspace that is not a write (no chunk inserted, no
\* decay) is a call of getChunk, getAllChunks, getMostActiveChunks or
\* findHighEnergyCluster, and it leaves the chunks as they were: same ids,
\* same order, same energies; getAllChunks answers the chunks in insertion
\* order, so that when its last answer still is the workspace, the answer
\* kept after any further read is that same sequence.
C39_ReadsLeaveWorkspace ==
    [][(nextId' = nextId /\ decayCalls' = decayCalls) =>
          /\ chunks' = chunks
          /\ result'.thoughts # result.thoughts => result'.thoughts = chunks
          /\ result.thoughts = chunks => result'.thoughts = result.thoughts]_vars

\* three chunks whose order by energy is not their insertion order have been
\* read by getMostActiveChunks, by findHighEnergyCluster, which found a
\* cluster, and by getAllChunks, whose answer is the workspace
C39_Witness ==
    /\ Len(chunks) = 3
    /\ activeChunks = Ids(getMostActiveChunks(chunks, 10))
    /\ activeChunks # Ids(chunks)
    /\ cluster # <<>>
    /\ cluster = Ids(findHighEnergyCluster(chunks, config))
    /\ result.thoughts = chunks

-----------------------------------------------------------------------------
(* Cosine similarity *)

\* what the function named in args answers for a pair of vectors
SimilarityOf(name, vecA, vecB) ==
    IF name = "cosineSimilarity" THEN cosineSimilarity(vecA, vecB)
    ELSE calculateSimilarity(vecA, vecB)

IsZeroVector(v) == \A i \in 1..Len(v) : v[i] = 0

-----------------------------------------------------------------------------
(* The embedding cache *)

\* C36: whatever getEmbedding and clearCache calls came before, what
\* getEmbedding returns for a text is the embedding the generation
\* capability gives that text; and a call whose generation fails throws and
\* leaves the cache as it was.
C36_ReturnsOwnEmbedding ==
    /\ []((args # <<>> /\ answer.ok) => answer.val = TextEmbedding(args[1]))
    /\ [][\A k \in 1..Len(ServiceTexts) :
             (EmbGetEmbedding(ServiceTexts[k], Thrown)
                 /\ cacheKey(ServiceTexts[k]) \notin DOMAIN cache) =>
                 /\ answer' = Thrown
                 /\ cache' = cache]_vars

-----------------------------------------------------------------------------
(* updateConfig *)

\* newConfig names the field of the section
Names(newConfig, section, field) ==
    section \in DOMAIN newConfig /\ field \in DOMAIN newConfig[section]

\* C35: updateConfig(p) gives every setting p names the value p gives it
\* and leaves every other setting, the other fields of a section p names
\* included, at the value it had; and a run started afterwards runs with
\* the settings of the updated configuration: it executes its maxCycles.
C35_UpdateConfigIsPartial ==
    /\ [][\A newConfig \in PartialConfigs :
             UpdateConfig(newConfig) =>
                 \A section \in DOMAIN axonConfig :
                     \A field \in DOMAIN axonConfig[section] :
                         axonConfig'[section][field] =
                             IF Names(newConfig, section, field)
                             THEN newConfig[section][field]
                             ELSE axonConfig[section][field]]_vars
    /\ [](pc = "completed" => result.cyclesExecuted = axonConfig.orchestrator.maxCycles)

-----------------------------------------------------------------------------
(* The methods after processWithStreaming *)

NoCallUnderWay == \A c \in Calls : streams[c].st # "running"

\* C34: when every processWithStreaming call made has returned or thrown,
\* the orchestrator's runCognitiveCycle and processBroadcast are the methods
\* of its class, and a cycle of a plain process call emits nothing, whether
\* the calls followed one another or overlapped.
C34_MethodsRestored ==
    /\ [](NoCallUnderWay => methods = OriginalMethods)
    /\ [][NoCallUnderWay => emitted' = emitted]_vars

====
